---------------------------- MODULE Spec2Model ----------------------------
(***************************************************************************)
(* Model of the airflow_mcp URL resolver (url_utils.py, validation.py) and *)
(* of the task-log filter pipeline (tools/task_logs.py).                   *)
(*                                                                         *)
(* Python strings are modelled as sequences of one-character strings, so   *)
(* that quoting, unquoting, URL splitting and line splitting are computed  *)
(* character by character, the way the library code computes them.         *)
(***************************************************************************)
EXTENDS Integers, Sequences, FiniteSets, TLC

VARIABLES
    reg,      \* the loaded instance registry (registry._registry)
    op,       \* the last resolver call and its arguments
    out,      \* what that call returned or raised
    logop,    \* the last log-filter call and its arguments
    logout,   \* what that call returned
    _current_logger,  \* observability._current_logger: a logger's request_id, 0 for None
    _last_logger,     \* observability._last_logger, likewise
    blocks,   \* the open with-blocks, outermost first: logger and its _token
    request_ids,      \* how many OperationLogger objects were created
    call,     \* the running call of a tool wrapped by handle_errors
    in_flight,        \* the exception that is propagating
    payload,  \* what the last wrapped call raised
    _registry,        \* registry._registry: 0 for None, else the number of the load
    loads,    \* how many times load_registry_from_yaml has returned a registry
    threads,  \* per thread: its position in get_registry and what it holds
    resets    \* how many times reset_registry_cache was called

urlVars == <<reg, op, out>>
logVars == <<logop, logout>>
obsVars == <<_current_logger, _last_logger, blocks, request_ids, call, in_flight, payload>>
cacheVars == <<_registry, loads, threads, resets>>

vars == <<reg, op, out, logop, logout, _current_logger, _last_logger, blocks, request_ids, call, in_flight, payload, _registry, loads, threads, resets>>

\* No wrapped call is running, no exception is propagating, nothing was raised
NoCall == [active |-> FALSE, base |-> 0, opened |-> {}]
NoExc == [type |-> "", code |-> "", text |-> ""]
NoPayload == [raised |-> "", code |-> "", message |-> "", request_id |-> 0, of |-> NoExc, opened |-> {}]

\* observability.py after import: both context variables hold their default
ObsStart ==
    /\ _current_logger = 0
    /\ _last_logger = 0
    /\ blocks = <<>>
    /\ request_ids = 0
    /\ call = NoCall
    /\ in_flight = NoExc
    /\ payload = NoPayload

\* Threads that call get_registry
NumThreads == 2
Threads == 1..NumThreads

\* a thread outside get_registry
Outside == [pc |-> "outside", loaded |-> 0, got |-> 0]

\* registry.py after import: _registry = None
CacheStart ==
    /\ _registry = 0
    /\ loads = 0
    /\ resets = 0
    /\ threads = [t \in Threads |-> Outside]

-----------------------------------------------------------------------------
(* Characters                                                              *)

UpperChars == <<"A","B","C","D","E","F","G","H","I","J","K","L","M",
                "N","O","P","Q","R","S","T","U","V","W","X","Y","Z">>
LowerChars == <<"a","b","c","d","e","f","g","h","i","j","k","l","m",
                "n","o","p","q","r","s","t","u","v","w","x","y","z">>
DigitChars == <<"0","1","2","3","4","5","6","7","8","9">>

Range(s) == { s[i] : i \in DOMAIN s }

UpperSet == Range(UpperChars)
LowerSet == Range(LowerChars)
DigitSet == Range(DigitChars)
AlphaSet == UpperSet \cup LowerSet
AlnumSet == AlphaSet \cup DigitSet

IndexIn(c, s) == CHOOSE i \in DOMAIN s : s[i] = c

\* str.lower() / str.upper() on one character
LowerChar(c) == IF c \in UpperSet THEN LowerChars[IndexIn(c, UpperChars)] ELSE c
UpperChar(c) == IF c \in LowerSet THEN UpperChars[IndexIn(c, LowerChars)] ELSE c

lower(s) == [i \in DOMAIN s |-> LowerChar(s[i])]
upper(s) == [i \in DOMAIN s |-> UpperChar(s[i])]

-----------------------------------------------------------------------------
(* Generic string helpers (str.find, str.split, str.join, slicing)         *)

\* s[i:] with a 1-based start index
From(s, i) == SubSeq(s, i, Len(s))

\* 1-based index of the first character of s that lies in the set cs; 0 if none
FindAny(s, cs) ==
    IF \E i \in DOMAIN s : s[i] \in cs
    THEN CHOOSE i \in DOMAIN s : s[i] \in cs /\ \A j \in 1..(i-1) : s[j] \notin cs
    ELSE 0

\* 1-based index of the last occurrence of c in s; 0 if none
RFind(s, c) ==
    IF \E i \in DOMAIN s : s[i] = c
    THEN CHOOSE i \in DOMAIN s : s[i] = c /\ \A j \in (i+1)..Len(s) : s[j] # c
    ELSE 0

StartsWith(s, p) == Len(s) >= Len(p) /\ SubSeq(s, 1, Len(p)) = p

\* str.split(sep) for a one-character separator
RECURSIVE split(_, _)
split(s, sep) ==
    LET i == FindAny(s, {sep})
    IN  IF i = 0 THEN <<s>>
        ELSE <<SubSeq(s, 1, i-1)>> \o split(From(s, i+1), sep)

\* sep.join(parts)
RECURSIVE join(_, _)
join(parts, sep) ==
    IF parts = <<>> THEN <<>>
    ELSE IF Len(parts) = 1 THEN parts[1]
    ELSE parts[1] \o sep \o join(Tail(parts), sep)

\* Mutation: empty segments are kept
NonEmpty_KeepEmpty(parts) == parts

\* [x for x in s if P(x)] for the predicate "x is not empty"
RECURSIVE NonEmpty(_)
NonEmpty(parts) ==
    IF parts = <<>> THEN <<>>
    ELSE IF Head(parts) = <<>> THEN NonEmpty(Tail(parts))
    ELSE <<Head(parts)>> \o NonEmpty(Tail(parts))

\* Mutation: nothing is stripped
rstrip_Nothing(s, c) == s

\* str.rstrip(chars) for a one-character set
RECURSIVE rstrip(_, _)
rstrip(s, c) ==
    IF s # <<>> /\ s[Len(s)] = c THEN rstrip(SubSeq(s, 1, Len(s)-1), c) ELSE s

\* str.replace(a, b) for single characters
replace(s, a, b) == [i \in DOMAIN s |-> IF s[i] = a THEN b ELSE s[i]]

-----------------------------------------------------------------------------
(* Optional values and results                                             *)

None == [some |-> FALSE, v |-> <<>>]
Some(x) == [some |-> TRUE, v |-> x]
NoInt == [some |-> FALSE, v |-> 0]

\* Python truthiness of an Optional[str]
Truthy(o) == o.some /\ o.v # <<>>

NoVal == [instance |-> <<>>, route |-> <<>>, dag_id |-> None,
          dag_run_id |-> None, task_id |-> None, try_number |-> NoInt]

\* A value returned normally
Ok(x) == [ok |-> TRUE, val |-> x, code |-> "", msg |-> "", field |-> ""]

\* raise AirflowToolError(msg, code=code, context=...); field is context["field"],
\* "" when the context has no such entry
AirflowToolError(msg, code, field) ==
    [ok |-> FALSE, val |-> NoVal, code |-> code, msg |-> msg, field |-> field]

-----------------------------------------------------------------------------
(* urllib.parse: quote, unquote, urlparse, parse_qs                        *)

\* Characters quote() never escapes: ALPHA / DIGIT / "_.-~"
Unreserved == AlnumSet \cup {"_", ".", "-", "~"}

\* The ASCII code, as two upper-case hex digits, of every character of the
\* model's alphabet that percent-encoding is applied to or decoded into.
PctTable == { <<":", "3", "A">>, <<"+", "2", "B">>, <<" ", "2", "0">>,
              <<"/", "2", "F">>, <<"?", "3", "F">>, <<"&", "2", "6">>,
              <<"=", "3", "D">>, <<"#", "2", "3">>, <<"%", "2", "5">>,
              <<"@", "4", "0">>, <<"\n", "0", "A">>,
              <<".", "2", "E">>, <<"-", "2", "D">>, <<"_", "5", "F">>,
              <<"d", "6", "4">>, <<"i", "6", "9">>, <<"1", "3", "1">> }

PctOf(c) == LET t == CHOOSE t \in PctTable : t[1] = c IN <<"%", t[2], t[3]>>

IsPct(h, l) == \E t \in PctTable : t[2] = UpperChar(h) /\ t[3] = UpperChar(l)
CharOf(h, l) ==
    (CHOOSE t \in PctTable : t[2] = UpperChar(h) /\ t[3] = UpperChar(l))[1]

\* quote(value, safe=safe): every character outside Unreserved and safe
\* becomes %XX
RECURSIVE quote(_, _)
quote(s, safe) ==
    IF s = <<>> THEN <<>>
    ELSE (IF Head(s) \in Unreserved \cup safe THEN <<Head(s)>> ELSE PctOf(Head(s)))
         \o quote(Tail(s), safe)

\* unquote(s): every %XX becomes its character; '+' is left alone; a '%' not
\* followed by two hex digits is left alone
RECURSIVE unquote(_)
unquote(s) ==
    IF s = <<>> THEN <<>>
    ELSE IF Len(s) >= 3 /\ s[1] = "%" /\ IsPct(s[2], s[3])
         THEN <<CharOf(s[2], s[3])>> \o unquote(From(s, 4))
         ELSE <<s[1]>> \o unquote(Tail(s))

\* Characters allowed in a scheme
SchemeChars == AlnumSet \cup {"+", "-", "."}

\* urlparse splits the URL from left to right; each step returns the part it
\* took and what is left for the next step.

\* <<scheme, rest>>: the text before the first ':' if it is a scheme
SplitScheme(url) ==
    LET i == FindAny(url, {":"})
    IN  IF /\ i > 1
           /\ url[1] \in AlphaSet
           /\ \A j \in 1..(i-1) : url[j] \in SchemeChars
        THEN <<lower(SubSeq(url, 1, i-1)), From(url, i+1)>>
        ELSE << <<>>, url >>

\* <<netloc, rest>>: after '//' the text up to the first '/', '?' or '#'
SplitNetloc(rest) ==
    IF ~StartsWith(rest, <<"/", "/">>) THEN << <<>>, rest >>
    ELSE LET d == FindAny(From(rest, 3), {"/", "?", "#"})
         IN  IF d = 0 THEN << From(rest, 3), <<>> >>
             ELSE << SubSeq(rest, 3, d+1), From(rest, d+2) >>

\* <<before, after>> the first occurrence of c (all of s before if none)
SplitAt(s, c) ==
    LET i == FindAny(s, {c})
    IN  IF i = 0 THEN << s, <<>> >> ELSE << SubSeq(s, 1, i-1), From(s, i+1) >>

UrlParseQuery(scheme, netloc, pq, fragment) ==
    [scheme |-> scheme, netloc |-> netloc, path |-> pq[1],
     query |-> pq[2], fragment |-> fragment]
UrlParseFragment(scheme, netloc, pf) ==
    UrlParseQuery(scheme, netloc, SplitAt(pf[1], "?"), pf[2])
UrlParseNetloc(scheme, nr) == UrlParseFragment(scheme, nr[1], SplitAt(nr[2], "#"))
UrlParseScheme(sr) == UrlParseNetloc(sr[1], SplitNetloc(sr[2]))

\* urlparse(url): [scheme, netloc, path, query, fragment]; the scheme is
\* lower-cased, the rest is kept as received
urlparse(url) == UrlParseScheme(SplitScheme(url))

\* ParseResult.hostname: the netloc without userinfo and port, lower-cased;
\* None (here the empty string, which the callers equate with None) if empty
hostname_AsReceived(parsed) ==
    LET a == RFind(parsed.netloc, "@")
        hostinfo == From(parsed.netloc, a+1)
        c == FindAny(hostinfo, {":"})
    IN  IF c = 0 THEN hostinfo ELSE SubSeq(hostinfo, 1, c-1)

hostname(parsed) ==
    LET a == RFind(parsed.netloc, "@")
        hostinfo == From(parsed.netloc, a+1)
        c == FindAny(hostinfo, {":"})
        h == IF c = 0 THEN hostinfo ELSE SubSeq(hostinfo, 1, c-1)
    IN  lower(h)

\* parse_qs(query): the (name, value) pairs in order of appearance; fields
\* without '=' and fields with a blank value are dropped; in both name and
\* value '+' is replaced by a space before unquoting
RECURSIVE QsPairs(_)
QsPairs(fields) ==
    IF fields = <<>> THEN <<>>
    ELSE LET f == Head(fields)
             e == FindAny(f, {"="})
             name == unquote(replace(SubSeq(f, 1, e-1), "+", " "))
             value == unquote(replace(From(f, e+1), "+", " "))
         IN  (IF f = <<>> \/ e = 0 \/ From(f, e+1) = <<>>
              THEN <<>> ELSE << <<name, value>> >>)
             \o QsPairs(Tail(fields))

parse_qs(query) == QsPairs(split(query, "&"))

\* The least element of a non-empty set of indices
First(hits) == CHOOSE i \in hits : \A j \in hits : i <= j

\* q(name): vals[0] of query.get(name), else None; query is parse_qs's result
q(query, name) ==
    LET hits == { i \in DOMAIN query : query[i][1] = name }
    IN  IF hits = {} THEN None ELSE Some(query[First(hits)][2])

\* int(text) for text made of an optional sign and decimal digits
IsIntLiteral(s) ==
    LET body == IF s # <<>> /\ s[1] \in {"+", "-"} THEN Tail(s) ELSE s
    IN  body # <<>> /\ \A i \in DOMAIN body : body[i] \in DigitSet

RECURSIVE DigitsVal(_)
DigitsVal(s) ==
    IF s = <<>> THEN 0
    ELSE 10 * DigitsVal(SubSeq(s, 1, Len(s)-1)) + (IndexIn(s[Len(s)], DigitChars) - 1)

IntOf(s) ==
    IF s[1] = "-" THEN 0 - DigitsVal(Tail(s))
    ELSE IF s[1] = "+" THEN DigitsVal(Tail(s))
    ELSE DigitsVal(s)

\* str(n) for an int
RECURSIVE NatStr(_)
NatStr(n) ==
    IF n < 10 THEN <<DigitChars[n+1]>>
    ELSE NatStr(n \div 10) \o <<DigitChars[(n % 10) + 1]>>

IntStr(n) == IF n < 0 THEN <<"-">> \o NatStr(0 - n) ELSE NatStr(n)

-----------------------------------------------------------------------------
(* validation.py                                                           *)

INSTANCE_KEY_FIRST == AlnumSet
INSTANCE_KEY_REST == AlnumSet \cup {"_", ".", "-"}
DAG_ID_PATTERN == AlnumSet \cup {"_", ".", "-"}
DAG_RUN_ID_PATTERN == AlnumSet \cup {"_", ".", ":", "+", "-"}
TASK_ID_PATTERN == AlnumSet \cup {"_", ".", "+", "-"}

\* pattern.fullmatch(value) for a pattern ^[class]+$
FullMatch(value, class) ==
    value # <<>> /\ \A i \in DOMAIN value : value[i] \in class

\* Mutation: every identifier is accepted
_validate_optional_Lenient(name, value, class) == Ok(value)

_validate_optional(name, value, class) ==
    IF ~value.some THEN Ok(None)
    ELSE IF ~FullMatch(value.v, class)
         THEN AirflowToolError("Invalid identifier", "INVALID_INPUT", name)
         ELSE Ok(value)

validate_instance_key(value) ==
    IF value = <<>>
    THEN AirflowToolError("Missing instance", "INVALID_INPUT", "instance")
    ELSE IF ~(value[1] \in INSTANCE_KEY_FIRST
              /\ \A i \in 2..Len(value) : value[i] \in INSTANCE_KEY_REST)
         THEN AirflowToolError("Invalid instance", "INVALID_INPUT", "instance")
         ELSE Ok(value)

\* Mutation: the dag_id is not validated
validate_dag_id_Skip(value) == Ok(value)

validate_dag_id(value) == _validate_optional("dag_id", value, DAG_ID_PATTERN)
validate_dag_run_id(value) == _validate_optional("dag_run_id", value, DAG_RUN_ID_PATTERN)
validate_task_id(value) == _validate_optional("task_id", value, TASK_ID_PATTERN)

-----------------------------------------------------------------------------
(* String literals of url_utils.py                                         *)

S_dags == <<"d","a","g","s">>
S_grid == <<"g","r","i","d">>
S_graph == <<"g","r","a","p","h">>
S_dagRuns == <<"d","a","g","R","u","n","s">>
S_task == <<"t","a","s","k">>
S_taskInstances == <<"t","a","s","k","I","n","s","t","a","n","c","e","s">>
S_logs == <<"l","o","g","s">>
S_log == <<"l","o","g">>
S_dag_run == <<"d","a","g","_","r","u","n">>
S_unknown == <<"u","n","k","n","o","w","n">>
S_http == <<"h","t","t","p">>
S_https == <<"h","t","t","p","s">>
S_dag_run_id == <<"d","a","g","_","r","u","n","_","i","d">>
S_task_id == <<"t","a","s","k","_","i","d">>

-----------------------------------------------------------------------------
(* url_utils.py                                                            *)

ResolvedUrl(instance, route, dag_id, dag_run_id, task_id, try_number) ==
    [instance |-> instance, route |-> route, dag_id |-> dag_id,
     dag_run_id |-> dag_run_id, task_id |-> task_id, try_number |-> try_number]

\* Mutation: '+' is treated as a safe character
_encode_segment_PlusSafe(value) == quote(value, {"+"})

_encode_segment(value) == quote(value, {})

\* params: the dict as a sequence of <<key, Optional value>> in insertion order
RECURSIVE EncodedParams(_)
EncodedParams(params) ==
    IF params = <<>> THEN <<>>
    ELSE (IF ~Head(params)[2].some THEN <<>>
          ELSE << quote(Head(params)[1], {}) \o <<"=">>
                  \o _encode_segment(Head(params)[2].v) >>)
         \o EncodedParams(Tail(params))

_encode_query(params) == join(EncodedParams(params), <<"&">>)

\* ('?' + qs) if qs else ''
QuerySuffix(qs) == IF qs = <<>> THEN <<>> ELSE <<"?">> \o qs

\* The registry is the ordered mapping key -> host of the instances file,
\* a sequence of [key, host] records in iteration order.
RegKeys(r) == { r[i].key : i \in DOMAIN r }
HostOf(r, key) == r[CHOOSE i \in DOMAIN r : r[i].key = key].host

\* Mutation: an unmatched host falls back to the first configured instance
_resolve_instance_key_from_host_Fallback(r, host) ==
    LET hits == { i \in DOMAIN r : hostname(urlparse(r[i].host)) = host }
    IN  IF hits = {} THEN Some(r[1].key) ELSE Some(r[First(hits)].key)

\* Mutation: the last configured instance with the hostname wins
_resolve_instance_key_from_host_Last(r, host) ==
    LET hits == { i \in DOMAIN r : hostname(urlparse(r[i].host)) = host }
    IN  IF hits = {} THEN None
        ELSE Some(r[CHOOSE i \in hits : \A j \in hits : j <= i].key)

_resolve_instance_key_from_host(r, host) ==
    LET hits == { i \in DOMAIN r : hostname(urlparse(r[i].host)) = host }
    IN  IF hits = {} THEN None ELSE Some(r[First(hits)].key)

\* int(segments[7]), None on ValueError
TryNumberOf(seg) == IF IsIntLiteral(seg) THEN [some |-> TRUE, v |-> IntOf(seg)] ELSE NoInt

\* parse_airflow_ui_url, lines 111-114: grid and graph
RouteGrid(instance_key, route, dag_id, run) ==
    IF ~run.ok THEN run
    ELSE Ok(ResolvedUrl(instance_key, route, dag_id, run.val, None, NoInt))

\* lines 119-125: the log shape below dagRuns/{rid}
RouteLog(instance_key, dag_id, dag_run_id, task, seg) ==
    IF ~task.ok THEN task
    ELSE Ok(ResolvedUrl(instance_key, S_log, dag_id, dag_run_id, task.val, TryNumberOf(seg)))

\* lines 116-125: dagRuns/{rid}
RouteRun(instance_key, segments, dag_id, run) ==
    IF ~run.ok THEN run
    ELSE IF Len(segments) >= 8 /\ segments[5] = S_taskInstances /\ segments[7] = S_logs
         THEN RouteLog(instance_key, dag_id, run.val,
                       validate_task_id(Some(unquote(segments[6]))), segments[8])
         ELSE Ok(ResolvedUrl(instance_key, S_dag_run, dag_id, run.val, None, NoInt))

\* lines 126-131: task
RouteTask(instance_key, dag_id, task, run) ==
    IF ~task.ok THEN task
    ELSE IF ~run.ok THEN run
    ELSE Ok(ResolvedUrl(instance_key, S_task, dag_id, run.val, task.val, NoInt))

\* lines 111-131: the route-specific part, after dag_id was accepted;
\* query is parse_qs's result
ParseRoute(instance_key, segments, query, dag_id) ==
    IF Len(segments) >= 3 /\ segments[3] \in {S_grid, S_graph}
    THEN RouteGrid(instance_key, segments[3], dag_id,
                   validate_dag_run_id(q(query, S_dag_run_id)))
    ELSE IF Len(segments) >= 3 /\ segments[3] = S_dagRuns
    THEN IF Len(segments) >= 4
         THEN RouteRun(instance_key, segments, dag_id,
                       validate_dag_run_id(Some(unquote(segments[4]))))
         ELSE Ok(ResolvedUrl(instance_key, S_unknown, dag_id, None, None, NoInt))
    ELSE IF Len(segments) >= 3 /\ segments[3] = S_task
    THEN RouteTask(instance_key, dag_id, validate_task_id(q(query, S_task_id)),
                   validate_dag_run_id(q(query, S_dag_run_id)))
    ELSE Ok(ResolvedUrl(instance_key, S_unknown, dag_id, None, None, NoInt))

\* Mutation: the dag_id of the path is validated but not kept
ParseDag_DropDag(instance_key, segments, query, dag) ==
    IF ~dag.ok THEN dag ELSE ParseRoute(instance_key, segments, query, None)

\* lines 109-110
ParseDag(instance_key, segments, query, dag) ==
    IF ~dag.ok THEN dag ELSE ParseRoute(instance_key, segments, query, dag.val)

\* lines 99-140
ParseSegments(instance_key, segments, query) ==
    IF Len(segments) >= 2 /\ segments[1] = S_dags
    THEN ParseDag(instance_key, segments, query,
                  validate_dag_id(Some(unquote(segments[2]))))
    ELSE Ok(ResolvedUrl(instance_key, S_unknown, None, None, None, NoInt))

\* lines 93-97
ParseKey(parsed, key) ==
    IF ~key.ok THEN key
    ELSE ParseSegments(key.val, NonEmpty(split(parsed.path, "/")), parse_qs(parsed.query))

\* lines 86-93
ParseInstance(parsed, found) ==
    IF ~Truthy(found)
    THEN AirflowToolError("Unknown instance host", "NOT_FOUND", "")
    ELSE ParseKey(parsed, validate_instance_key(found.v))

\* lines 63-86
ParseHost(r, parsed, scheme, host) ==
    IF scheme = <<>>
    THEN AirflowToolError("ui_url must be a full http(s) URL", "INVALID_INPUT", "")
    ELSE IF scheme \notin {S_http, S_https}
    THEN AirflowToolError("ui_url must start with http or https", "INVALID_INPUT", "")
    ELSE IF host = <<>>
    THEN AirflowToolError("Missing hostname in URL", "INVALID_INPUT", "")
    ELSE ParseInstance(parsed, _resolve_instance_key_from_host(r, host))

ParseParsed(r, parsed) == ParseHost(r, parsed, lower(parsed.scheme), hostname(parsed))

parse_airflow_ui_url(r, url) == ParseParsed(r, urlparse(url))

\* The route branches of build_airflow_ui_url, after instance and dag_id
\* were accepted; base is the configured host without trailing slashes
BuildRoute(base, route, dag_id, dag_run_id, task_id, try_number) ==
    LET encoded_dag_id == _encode_segment(dag_id)
        run == validate_dag_run_id(dag_run_id)
        task == validate_task_id(task_id)
        prefix == base \o <<"/">> \o S_dags \o <<"/">> \o encoded_dag_id \o <<"/">>
    IN  IF route \in {S_grid, S_graph}
        THEN IF ~run.ok THEN run
             ELSE Ok(prefix \o route
                     \o QuerySuffix(_encode_query(<< <<S_dag_run_id, run.val>> >>)))
        ELSE IF route = S_dag_run /\ Truthy(dag_run_id)
        THEN IF ~run.ok THEN run
             ELSE Ok(prefix \o S_dagRuns \o <<"/">> \o _encode_segment(run.val.v))
        ELSE IF route = S_task /\ Truthy(task_id)
        THEN IF ~run.ok THEN run
             ELSE IF ~task.ok THEN task
             ELSE Ok(prefix \o S_task
                     \o QuerySuffix(_encode_query(<< <<S_task_id, task.val>>,
                                                     <<S_dag_run_id, run.val>> >>)))
        ELSE IF route = S_log /\ Truthy(dag_run_id) /\ Truthy(task_id) /\ try_number.some
        THEN IF ~run.ok THEN run
             ELSE IF ~task.ok THEN task
             ELSE Ok(prefix \o S_dagRuns \o <<"/">> \o _encode_segment(run.val.v)
                     \o <<"/">> \o S_taskInstances \o <<"/">> \o _encode_segment(task.val.v)
                     \o <<"/">> \o S_logs \o <<"/">> \o IntStr(try_number.v))
        ELSE AirflowToolError("Unsupported route or missing identifiers",
                              "INVALID_INPUT", "")

build_airflow_ui_url(r, instance, route, dag_id, dag_run_id, task_id, try_number) ==
    LET inst == validate_instance_key(instance)
        dag == validate_dag_id(dag_id)
    IN  IF ~inst.ok THEN inst
        ELSE IF ~dag.ok THEN dag
        ELSE IF ~Truthy(dag.val)
        THEN AirflowToolError("Missing dag_id", "INVALID_INPUT", "dag_id")
        ELSE IF instance \notin RegKeys(r)
        THEN AirflowToolError("Unknown instance", "NOT_FOUND", "")
        ELSE BuildRoute(rstrip(HostOf(r, instance), "/"), route, dag.val.v,
                        dag_run_id, task_id, try_number)

\* Mutation: when both are given the URL silently wins
CheckMismatch_PreferUrl(parsed, instance) == parsed

\* resolve_and_validate, lines 219-227
CheckMismatch(parsed, instance) ==
    IF ~parsed.ok THEN parsed
    ELSE IF parsed.val.instance # instance
    THEN AirflowToolError("INSTANCE_MISMATCH", "INVALID_INPUT", "")
    ELSE parsed

\* Mutation: an instance given alone is not looked up in the registry
ResolveTarget_NoLookup(r, ui_url, instance) ==
    IF Truthy(ui_url) /\ Truthy(instance)
    THEN CheckMismatch(parse_airflow_ui_url(r, ui_url.v), instance.v)
    ELSE IF Truthy(ui_url) /\ ~Truthy(instance)
    THEN parse_airflow_ui_url(r, ui_url.v)
    ELSE IF Truthy(instance) /\ ~Truthy(ui_url)
    THEN Ok(ResolvedUrl(instance.v, S_unknown, None, None, None, NoInt))
    ELSE AirflowToolError("MISSING_TARGET", "INVALID_INPUT", "")

\* lines 219-242
ResolveTarget(r, ui_url, instance) ==
    IF Truthy(ui_url) /\ Truthy(instance)
    THEN CheckMismatch(parse_airflow_ui_url(r, ui_url.v), instance.v)
    ELSE IF Truthy(ui_url) /\ ~Truthy(instance)
    THEN parse_airflow_ui_url(r, ui_url.v)
    ELSE IF Truthy(instance) /\ ~Truthy(ui_url)
    THEN IF instance.v \notin RegKeys(r)
         THEN AirflowToolError("Unknown instance", "NOT_FOUND", "")
         ELSE Ok(ResolvedUrl(instance.v, S_unknown, None, None, None, NoInt))
    ELSE AirflowToolError("MISSING_TARGET", "INVALID_INPUT", "")

\* lines 216-217
ResolveChecked(r, ui_url, instance, inst) ==
    IF ~inst.ok THEN inst ELSE ResolveTarget(r, ui_url, instance)

\* ui_url and instance are Optional[str]
resolve_and_validate(r, ui_url, instance) ==
    IF Truthy(instance)
    THEN ResolveChecked(r, ui_url, instance, validate_instance_key(instance.v))
    ELSE ResolveTarget(r, ui_url, instance)

-----------------------------------------------------------------------------
(* Inputs of the resolver                                                  *)

\* Largest try number used and number of extra trailing path segments tried
MaxTry == 12
MaxExtra == 1

K_stg == <<"s","t","g">>
K_prod == <<"p","r","o","d">>
K_ml == <<"m","l">>
K_nope == <<"n","o","p","e">>
K_bad == <<"m"," ","k">>

Inst(key, host) == [key |-> key, host |-> host]

\* Two instances with distinct hosts, one with a trailing slash
RegPlain == << Inst(K_stg, <<"h","t","t","p","s",":","/","/","a",".","e","x","/">>),
               Inst(K_prod, <<"h","t","t","p",":","/","/","b",".","e","x">>) >>
\* Two instances on one hostname (written in another case, with a port)
RegShared == << Inst(K_stg, <<"h","t","t","p","s",":","/","/","a",".","e","x">>),
                Inst(K_ml, <<"h","t","t","p","s",":","/","/","A",".","e","x",":","8","0","/","/">>) >>
\* A host with a path prefix, a host without scheme, a key with a space
RegOdd == << Inst(K_stg, <<"h","t","t","p","s",":","/","/","a",".","e","x","/","a","f">>),
             Inst(K_prod, <<"b",".","e","x">>),
             Inst(K_bad, <<"h","t","t","p","s",":","/","/","c",".","e","x">>) >>

Registries == {RegPlain, RegShared, RegOdd}

I_dag == <<"a",".","b","-","c">>
I_dagBad == <<"b"," ","d">>
I_run == <<"r","1">>
I_runPlus == <<"a",":","b","+","c">>
I_runBad == <<"r"," ","1">>
I_task == <<"t","1">>
I_taskPlus == <<"t","+","x">>
I_taskBad == <<"t",":","1">>

BuildInstances == {K_stg, K_prod, K_ml, K_nope, K_bad, <<>>}
BuildRoutes == {S_grid, S_graph, S_dag_run, S_task, S_log, S_unknown}
BuildDagIds == {None, Some(I_dag), Some(I_dagBad)}
BuildRunIds == {None, Some(<<>>), Some(I_run), Some(I_runPlus), Some(I_runBad)}
BuildTaskIds == {None, Some(I_task), Some(I_taskPlus), Some(I_taskBad)}
BuildTries == {NoInt} \cup { [some |-> TRUE, v |-> n] : n \in {0, MaxTry} }

\* URLs are composed from a scheme, an authority, path segments and a query
U_schemes == {S_https, <<"H","T","T","P">>, <<"f","t","p">>, <<>>}
U_hosts == {<<"a",".","e","x">>, <<"u","@","A",".","e","x",":","8","0">>, <<"b",".","e","x">>,
            <<"c",".","e","x">>, <<"z",".","e","x">>, <<>>}

P_runEnc == <<"a","%","3","A","b","%","2","B","c">>
P_taskEnc == <<"t","%","2","B","x">>
P_dagBadEnc == <<"b","%","2","0","d">>
P_x == <<"x">>
P_try == <<"1","2">>

LogT == <<S_dags, I_dag, S_dagRuns, P_runEnc, S_taskInstances, P_taskEnc, S_logs, P_try>>
GridT == <<S_dags, I_dag, S_grid>>
GraphT == <<S_dags, <<"a","%","2","E","b">>, S_graph>>
TaskT == <<S_dags, I_dag, S_task>>

Templates == {LogT, GridT, GraphT, TaskT}
Alternatives == {P_x, P_dagBadEnc, S_task, <<"g","r","%","6","9","d">>}

Extras(k) == [i \in 1..k |-> P_x]

\* The first n elements of s (all of s if it is shorter)
Take(s, n) == SubSeq(s, 1, IF n < Len(s) THEN n ELSE Len(s))
\* s with its i-th element, if it has one, replaced by a
Replace(s, i, a) == [j \in DOMAIN s |-> IF j = i THEN a ELSE s[j]]

\* Every prefix of a template (with up to MaxExtra trailing segments), as it
\* is and with one segment replaced by an alternative
PathSegs ==
    { Take(t \o Extras(k), n) :
        t \in Templates, k \in 0..MaxExtra, n \in 0..(Len(LogT) + MaxExtra) }
    \cup
    { Replace(Take(t, n), i, a) :
        t \in Templates, n \in 1..Len(LogT), i \in 1..Len(LogT), a \in Alternatives }

RECURSIVE PathOf(_)
PathOf(segs) == IF segs = <<>> THEN <<>> ELSE <<"/">> \o Head(segs) \o PathOf(Tail(segs))

Q_none == <<>>
Q_run == <<"?","d","a","g","_","r","u","n","_","i","d","=","r","1">>
Q_runLiteralPlus == <<"?","d","a","g","_","r","u","n","_","i","d","=","a","+","b">>
Q_both == <<"?","t","a","s","k","_","i","d","=","t","%","2","B","x","&","d","a","g","_","r","u","n","_","i","d","=","a","%","3","A","b","%","2","B","c">>
Q_taskLiteralPlus == <<"?","x","&","d","a","g","_","r","u","n","_","i","d","=","&","t","a","s","k","_","i","d","=","t","+","x","&","t","a","s","k","_","i","d","=","t","1">>
Q_taskBad == <<"?","t","a","s","k","_","i","d","=","t",":","1","&","d","a","g","_","r","u","n","_","i","d","=","r","%","2","0","1","#","d","a","g","_","r","u","n","_","i","d","=","r","1">>

Queries == {Q_none, Q_run, Q_runLiteralPlus, Q_both, Q_taskLiteralPlus, Q_taskBad}

UrlParts(scheme, host, segs, query) ==
    [scheme |-> scheme, host |-> host, segs |-> segs, query |-> query]

Compose(parts) ==
    (IF parts.scheme = <<>> THEN <<>> ELSE parts.scheme \o <<":", "/", "/">>)
    \o parts.host \o PathOf(parts.segs) \o parts.query

\* Scheme and authority variants over a few paths; path and query variants
\* under one well-formed scheme and authority
ParseInputs ==
    { UrlParts(sc, h, segs, qy) :
        sc \in U_schemes, h \in U_hosts,
        segs \in {<<>>, GridT, <<S_dags, P_dagBadEnc, S_grid>>},
        qy \in {Q_none, Q_taskBad} }
    \cup
    { UrlParts(S_https, h, segs, qy) :
        h \in {<<"a",".","e","x">>}, segs \in PathSegs, qy \in Queries }

ResolveUrls == {None, Some(<<>>)} \cup
    { Some(Compose(UrlParts(S_https, h, segs, Q_none))) :
        h \in U_hosts \ {<<>>}, segs \in {GridT, <<S_dags, P_dagBadEnc>>} }
ResolveInstances ==
    {None, Some(<<>>)} \cup { Some(k) : k \in {K_stg, K_prod, K_ml, K_nope, K_bad} }

-----------------------------------------------------------------------------
(* The resolver as a state machine: each action is one call                *)

Idle == [name |-> "idle"]
NoOut == Ok(<<>>)

InitUrl ==
    /\ reg \in Registries
    /\ op = Idle
    /\ out = NoOut
    /\ logop = Idle
    /\ logout = Idle
    /\ ObsStart
    /\ CacheStart

\* build_airflow_ui_url(instance, route, dag_id, dag_run_id, task_id, try_number)
Build ==
    /\ op = Idle
    /\ \E instance \in BuildInstances, route \in BuildRoutes, dag_id \in BuildDagIds,
       dag_run_id \in BuildRunIds, task_id \in BuildTaskIds, try_number \in BuildTries :
         /\ op' = [name |-> "build", instance |-> instance, route |-> route,
                   dag_id |-> dag_id, dag_run_id |-> dag_run_id, task_id |-> task_id,
                   try_number |-> try_number]
         /\ out' = build_airflow_ui_url(reg, instance, route, dag_id, dag_run_id,
                                        task_id, try_number)
         /\ UNCHANGED <<reg, logVars, obsVars, cacheVars>>

\* parse_airflow_ui_url(url) on the URL the preceding build returned
ParseBuilt ==
    /\ op.name = "build"
    /\ out.ok
    /\ op' = [name |-> "parse_built", args |-> op, url |-> out.val]
    /\ out' = parse_airflow_ui_url(reg, out.val)
    /\ UNCHANGED <<reg, logVars, obsVars, cacheVars>>

\* parse_airflow_ui_url(url) on a URL received from outside
Parse ==
    /\ op = Idle
    /\ \E parts \in ParseInputs :
        /\ op' = [name |-> "parse", parts |-> parts, url |-> Compose(parts)]
        /\ out' = parse_airflow_ui_url(reg, Compose(parts))
        /\ UNCHANGED <<reg, logVars, obsVars, cacheVars>>

\* resolve_and_validate(ui_url, instance)
Resolve ==
    /\ op = Idle
    /\ \E ui_url \in ResolveUrls, instance \in ResolveInstances :
        /\ op' = [name |-> "resolve", ui_url |-> ui_url, instance |-> instance]
        /\ out' = resolve_and_validate(reg, ui_url, instance)
        /\ UNCHANGED <<reg, logVars, obsVars, cacheVars>>

\* The caller consumes the result; the next call starts afresh
Return ==
    /\ op # Idle
    /\ op' = Idle
    /\ out' = NoOut
    /\ UNCHANGED <<reg, logVars, obsVars, cacheVars>>

NextUrl == Build \/ ParseBuilt \/ Parse \/ Resolve \/ Return

SpecUrl == InitUrl /\ [][NextUrl]_vars

-----------------------------------------------------------------------------
(* Properties of the resolver                                              *)

IsBuild == op.name = "build"
IsParse == op.name = "parse"
IsParseBuilt == op.name = "parse_built"
IsResolve == op.name = "resolve"

\* The identifiers a route carries in its URL
CarriesRun(route) == route \in {S_grid, S_graph, S_dag_run, S_task, S_log}
CarriesTask(route) == route \in {S_task, S_log}
CarriesTry(route) == route = S_log

\* The build arguments name no identifier that the route does not carry
RouteIdsOnly(a) ==
    /\ CarriesTask(a.route) \/ a.task_id = None
    /\ CarriesTry(a.route) \/ a.try_number = NoInt

\* What parsing the built URL is expected to return
Expected(a) ==
    ResolvedUrl(a.instance, a.route, a.dag_id,
                IF CarriesRun(a.route) THEN a.dag_run_id ELSE None,
                IF CarriesTask(a.route) THEN a.task_id ELSE None,
                IF CarriesTry(a.route) THEN a.try_number ELSE NoInt)

\* The configured host is scheme://authority, http or https, with nothing
\* after the authority but slashes
HostIsOrigin(host) ==
    LET u == urlparse(rstrip(host, "/"))
    IN  /\ u.scheme \in {S_http, S_https}
        /\ hostname(u) # <<>>
        /\ u.path = <<>> /\ u.query = <<>> /\ u.fragment = <<>>
        /\ FindAny(host, {"?", "#"}) = 0

\* No earlier registry entry has the same hostname (compared as parsed)
FirstWithHostname(r, key) ==
    LET i == CHOOSE i \in DOMAIN r : r[i].key = key
    IN  \A j \in 1..(i-1) :
            hostname(urlparse(r[j].host)) # hostname(urlparse(r[i].host))

\* C1 as stated: parse(build(instance, route, ids)) = (instance, route, ids)
\* for every registered instance and every identifier set valid for the route.
C1_RoundTripAnyInstance ==
    (IsParseBuilt /\ RouteIdsOnly(op.args)) => out = Ok(Expected(op.args))

\* C1 amended: the round trip holds when the instance's configured host is a
\* bare http(s) origin and the instance is the first registry entry with its
\* hostname; the result carries the identifiers of the route.
C1_RoundTrip ==
    (/\ IsParseBuilt
     /\ HostIsOrigin(HostOf(reg, op.args.instance))
     /\ FirstWithHostname(reg, op.args.instance))
    => out = Ok(Expected(op.args))

C1_Witness ==
    /\ IsParseBuilt
    /\ op.args.route = S_log
    /\ op.args.dag_run_id = Some(I_runPlus)
    /\ op.args.task_id = Some(I_taskPlus)
    /\ HostIsOrigin(HostOf(reg, op.args.instance))
    /\ FirstWithHostname(reg, op.args.instance)
    /\ out.ok /\ out.val.dag_run_id = Some(I_runPlus)

\* "given" for an optional argument of resolve_and_validate
Given(o) == Truthy(o)

C3_FourCases(u, i) ==
    LET parsed == parse_airflow_ui_url(reg, u.v) IN
    /\ (Given(u) /\ Given(i)) =>
          IF ~parsed.ok THEN out = parsed
          ELSE IF parsed.val.instance # i.v
               THEN ~out.ok /\ out.msg = "INSTANCE_MISMATCH" /\ out.code = "INVALID_INPUT"
               ELSE out = parsed
    /\ (Given(u) /\ ~Given(i)) => out = parsed
    /\ (~Given(u) /\ Given(i)) =>
          IF i.v \in RegKeys(reg)
          THEN out = Ok(ResolvedUrl(i.v, S_unknown, None, None, None, NoInt))
          ELSE ~out.ok /\ out.code = "NOT_FOUND"
    /\ (~Given(u) /\ ~Given(i)) =>
          ~out.ok /\ out.msg = "MISSING_TARGET" /\ out.code = "INVALID_INPUT"

\* C3 as stated: resolve_and_validate follows exactly the four-case rule.
C3_FourCaseRule == IsResolve => C3_FourCases(op.ui_url, op.instance)

SyntacticKey(k) ==
    k # <<>> /\ k[1] \in AlnumSet
    /\ \A n \in 2..Len(k) : k[n] \in AlnumSet \cup {"_", ".", "-"}

\* C3 amended: a given instance that is not a syntactically valid instance
\* key fails with INVALID_INPUT before anything else; otherwise the four-case
\* rule is followed.
C3_FourCaseRuleValidKey ==
    IsResolve =>
        IF Given(op.instance) /\ ~SyntacticKey(op.instance.v)
        THEN ~out.ok /\ out.code = "INVALID_INPUT" /\ out.field = "instance"
        ELSE C3_FourCases(op.ui_url, op.instance)

C3_Witness ==
    /\ IsResolve /\ Given(op.ui_url) /\ Given(op.instance)
    /\ SyntacticKey(op.instance.v)
    /\ ~out.ok /\ out.msg = "INSTANCE_MISMATCH"

\* The rows of the path-shape table
ExactRow(segs, route) ==
    \/ /\ route \in {S_grid, S_graph}
       /\ Len(segs) = 3 /\ segs[1] = S_dags /\ segs[3] = route
    \/ /\ route = S_task
       /\ Len(segs) = 3 /\ segs[1] = S_dags /\ segs[3] = S_task
    \/ /\ route = S_dag_run
       /\ Len(segs) = 4 /\ segs[1] = S_dags /\ segs[3] = S_dagRuns
    \/ /\ route = S_log
       /\ Len(segs) = 8 /\ segs[1] = S_dags /\ segs[3] = S_dagRuns
       /\ segs[5] = S_taskInstances /\ segs[7] = S_logs

\* C7 as stated: a route other than 'unknown' is selected only for a path
\* whose segments match one table row exactly in count and keywords.
C7_ExactMatchOnly ==
    (IsParse /\ out.ok /\ out.val.route # S_unknown)
    => ExactRow(op.parts.segs, out.val.route)

\* The rows as the leading segments of a longer path
LogShape(segs) ==
    /\ Len(segs) >= 8 /\ segs[1] = S_dags /\ segs[3] = S_dagRuns
    /\ segs[5] = S_taskInstances /\ segs[7] = S_logs

PrefixRoute(segs) ==
    IF Len(segs) >= 3 /\ segs[1] = S_dags /\ segs[3] \in {S_grid, S_graph, S_task}
    THEN segs[3]
    ELSE IF LogShape(segs) THEN S_log
    ELSE IF Len(segs) >= 4 /\ segs[1] = S_dags /\ segs[3] = S_dagRuns THEN S_dag_run
    ELSE S_unknown

\* C7 amended: the route is selected by the leading segments; the keywords
\* must match at their positions and the path must have at least the row's
\* number of segments, trailing segments being ignored; dagRuns/{rid}
\* followed by anything but the complete log shape is dag_run.
C7_PrefixMatch ==
    (IsParse /\ out.ok) => out.val.route = PrefixRoute(op.parts.segs)

C7_Witness ==
    /\ IsParse /\ out.ok
    /\ op.parts.segs = GridT \o <<P_x>>
    /\ out.val.route = S_grid

\* x is the percent-encoding of id with no safe characters: only unreserved
\* characters and %XX escapes, one escape per reserved character of id
IsEncodingOf(x, id) ==
    /\ \A i \in DOMAIN x : x[i] \in Unreserved \cup {"%"}
    /\ Len(x) = Len(id) + 2 * Cardinality({ i \in DOMAIN id : id[i] \notin Unreserved })
    /\ unquote(x) = id

\* The configured host without its trailing slashes
BaseOf(host) ==
    LET keep == { n \in DOMAIN host : host[n] # "/" }
    IN  IF keep = {} THEN <<>>
        ELSE SubSeq(host, 1, CHOOSE n \in keep : \A m \in keep : m <= n)

\* The query parameters that have a value, in order
RECURSIVE Present(_)
Present(params) ==
    IF params = <<>> THEN <<>>
    ELSE (IF Head(params)[2].some THEN <<Head(params)>> ELSE <<>>) \o Present(Tail(params))

\* rest is path, followed by '?' and the present parameters as key=value
\* joined by '&' if any parameter is present
HasShape(rest, path, params) ==
    LET pq == SplitAt(rest, "?")
        fields == split(pq[2], "&")
        want == Present(params)
    IN  /\ pq[1] = path
        /\ IF want = <<>> THEN rest = path
           ELSE /\ Len(fields) = Len(want)
                /\ \A i \in DOMAIN want :
                      /\ SplitAt(fields[i], "=")[1] = want[i][1]
                      /\ IsEncodingOf(SplitAt(fields[i], "=")[2], want[i][2].v)

\* The path of a built URL has exactly these segments
PathIs(path, segs) ==
    LET got == split(path, "/")
    IN  /\ Len(got) = Len(segs) + 1
        /\ got[1] = <<>>
        /\ \A i \in DOMAIN segs :
              IF segs[i].enc THEN IsEncodingOf(got[i+1], segs[i].v) ELSE got[i+1] = segs[i].v

Lit(x) == [enc |-> FALSE, v |-> x]
Enc(x) == [enc |-> TRUE, v |-> x]

\* The segments and query parameters of the route's grammar shape
ShapeSegs(a) ==
    IF a.route \in {S_grid, S_graph} THEN <<Lit(S_dags), Enc(a.dag_id.v), Lit(a.route)>>
    ELSE IF a.route = S_task THEN <<Lit(S_dags), Enc(a.dag_id.v), Lit(S_task)>>
    ELSE IF a.route = S_dag_run
    THEN <<Lit(S_dags), Enc(a.dag_id.v), Lit(S_dagRuns), Enc(a.dag_run_id.v)>>
    ELSE <<Lit(S_dags), Enc(a.dag_id.v), Lit(S_dagRuns), Enc(a.dag_run_id.v),
           Lit(S_taskInstances), Enc(a.task_id.v), Lit(S_logs), Lit(IntStr(a.try_number.v))>>

ShapeParams(a) ==
    IF a.route \in {S_grid, S_graph} THEN << <<S_dag_run_id, a.dag_run_id>> >>
    ELSE IF a.route = S_task
    THEN << <<S_task_id, a.task_id>>, <<S_dag_run_id, a.dag_run_id>> >>
    ELSE <<>>

\* C8: a built URL is the instance's host without trailing slashes followed
\* by the route's grammar shape; absent query parameters are omitted and every
\* identifier is percent-encoded with no safe characters, so the part after
\* the base holds no raw ':', '+' or space.
C8_BuildShape ==
    (IsBuild /\ out.ok) =>
        LET base == BaseOf(HostOf(reg, op.instance))
            rest == From(out.val, Len(base) + 1)
        IN  /\ StartsWith(out.val, base)
            /\ PathIs(SplitAt(rest, "?")[1], ShapeSegs(op))
            /\ HasShape(rest, SplitAt(rest, "?")[1], ShapeParams(op))
            /\ \A i \in DOMAIN rest : rest[i] \notin {":", "+", " "}

C8_Witness ==
    /\ IsBuild /\ out.ok
    /\ op.route = S_task
    /\ op.dag_run_id = Some(I_runPlus)
    /\ op.task_id = Some(I_taskPlus)
    /\ HostOf(reg, op.instance) # BaseOf(HostOf(reg, op.instance))

Q_runEncodedPlus == <<"?","d","a","g","_","r","u","n","_","i","d","=","a","%","2","B","b">>
Q_taskEncodedPlus == <<"?","x","&","d","a","g","_","r","u","n","_","i","d","=","&","t","a","s","k","_","i","d","=","t","%","2","B","x","&","t","a","s","k","_","i","d","=","t","1">>
I_aPlusB == <<"a","+","b">>

\* The URL with its query replaced parses
ParsesWith(parts, query) ==
    parse_airflow_ui_url(reg, Compose([parts EXCEPT !.query = query])).ok

\* C9: '+' is never turned into a space: an identifier with '+' survives
\* encode, decode, encode, and a literal '+' in the dag_run_id or task_id query
\* value of a URL is a '+' in the parsed identifier.
C9_PlusIsLiteral ==
    /\ (IsBuild /\ out.ok /\ op.dag_run_id.some) =>
          _encode_segment(unquote(_encode_segment(op.dag_run_id.v)))
              = _encode_segment(op.dag_run_id.v)
    /\ (/\ IsParse
        /\ op.parts.query = Q_runLiteralPlus
        /\ PrefixRoute(op.parts.segs) \in {S_grid, S_graph, S_task}
        /\ ParsesWith(op.parts, Q_runEncodedPlus))
       => (out.ok /\ out.val.dag_run_id = Some(I_aPlusB))
    /\ (/\ IsParse
        /\ op.parts.query = Q_taskLiteralPlus
        /\ PrefixRoute(op.parts.segs) = S_task
        /\ ParsesWith(op.parts, Q_taskEncodedPlus))
       => (out.ok /\ out.val.task_id = Some(I_taskPlus))

\* The hostnames of the configured instances, as parsed
RegHostnames(r) == { hostname(urlparse(r[i].host)) : i \in DOMAIN r }

\* The hostname of the authority the URL was composed with
AuthorityHost(parts) == hostname([netloc |-> parts.host])

IdentifierFields == {"dag_id", "dag_run_id", "task_id"}

\* C10: no scheme, a scheme other than http(s) and an empty hostname fail
\* with INVALID_INPUT, a hostname of no configured instance fails with
\* NOT_FOUND; the checks are made in this order and before any identifier of
\* the path or query is validated; none of these cases returns a ResolvedUrl.
C10_UrlErrors ==
    IsParse =>
        IF op.parts.scheme = <<>>
        THEN ~out.ok /\ out.code = "INVALID_INPUT"
             /\ out.msg = "ui_url must be a full http(s) URL"
        ELSE IF lower(op.parts.scheme) \notin {S_http, S_https}
        THEN ~out.ok /\ out.code = "INVALID_INPUT"
             /\ out.msg = "ui_url must start with http or https"
        ELSE IF AuthorityHost(op.parts) = <<>>
        THEN ~out.ok /\ out.code = "INVALID_INPUT" /\ out.msg = "Missing hostname in URL"
        ELSE IF AuthorityHost(op.parts) \notin RegHostnames(reg)
        THEN ~out.ok /\ out.code = "NOT_FOUND" /\ out.field \notin IdentifierFields
        ELSE out.msg \notin {"ui_url must be a full http(s) URL",
                            "ui_url must start with http or https",
                            "Missing hostname in URL", "Unknown instance host"}

C10_Witness ==
    /\ IsParse
    /\ lower(op.parts.scheme) = S_https
    /\ AuthorityHost(op.parts) # <<>>
    /\ AuthorityHost(op.parts) \notin RegHostnames(reg)
    /\ op.parts.segs = <<S_dags, P_dagBadEnc, S_grid>>
    /\ ~out.ok /\ out.code = "NOT_FOUND"

\* The text of the query of a composed URL: what lies between '?' and '#'
QueryText(query) ==
    IF query = <<>> THEN <<>>
    ELSE IF FindAny(query, {"#"}) = 0 THEN Tail(query)
    ELSE SubSeq(query, 2, FindAny(query, {"#"}) - 1)

\* The raw, still encoded values of the fields name=value of a query text
RawValues(fields, name) ==
    { From(fields[i], Len(name) + 2) :
        i \in { j \in DOMAIN fields : StartsWith(fields[j], name \o <<"=">>) } }

\* The first field name=value with a value, by position
FirstField(fields, name) ==
    First({ j \in DOMAIN fields :
              StartsWith(fields[j], name \o <<"=">>) /\ Len(fields[j]) > Len(name) + 1 })

\* The raw value of the query parameter name: that of its first field with
\* a value, None when there is none
RawParam(query, name) ==
    IF RawValues(split(QueryText(query), "&"), name) \ {<<>>} = {} THEN None
    ELSE Some(From(split(QueryText(query), "&")[FirstField(split(QueryText(query), "&"), name)],
                   Len(name) + 2))

\* The raw text each identifier is taken from, by the route the path selects
RawOf(parts, field) ==
    CASE field = "dag_id" ->
            IF Len(parts.segs) >= 2 /\ parts.segs[1] = S_dags
            THEN Some(parts.segs[2]) ELSE None
      [] field = "dag_run_id" ->
            IF PrefixRoute(parts.segs) \in {S_grid, S_graph, S_task}
            THEN RawParam(parts.query, S_dag_run_id)
            ELSE IF PrefixRoute(parts.segs) \in {S_dag_run, S_log}
            THEN Some(parts.segs[4]) ELSE None
      [] field = "task_id" ->
            IF PrefixRoute(parts.segs) = S_task THEN RawParam(parts.query, S_task_id)
            ELSE IF PrefixRoute(parts.segs) = S_log THEN Some(parts.segs[6]) ELSE None

ClassOf(field) ==
    CASE field = "dag_id" -> DAG_ID_PATTERN
      [] field = "dag_run_id" -> DAG_RUN_ID_PATTERN
      [] field = "task_id" -> TASK_ID_PATTERN

\* The identifiers of the URL whose percent-decoded value breaks its pattern
Offending(parts) ==
    { f \in IdentifierFields :
        RawOf(parts, f).some /\ ~FullMatch(unquote(RawOf(parts, f).v), ClassOf(f)) }

\* The URL passes the scheme and host checks and its host selects an
\* instance with a well-formed key, so that identifiers are extracted
Extracts(r, parts) ==
    /\ lower(parts.scheme) \in {S_http, S_https}
    /\ AuthorityHost(parts) # <<>>
    /\ AuthorityHost(parts) \in RegHostnames(r)
    /\ SyntacticKey(r[First({ i \in DOMAIN r :
                        hostname(urlparse(r[i].host)) = AuthorityHost(parts) })].key)

\* C11: every non-null identifier of a parsed URL is the percent-decoded text
\* of the segment or query parameter it was taken from and matches its
\* pattern; an extracted identifier that breaks its pattern after decoding
\* makes the parse fail with INVALID_INPUT naming an offending field
C11_DecodedAndValidated ==
    IsParse =>
        /\ out.ok =>
             /\ Offending(op.parts) = {}
             /\ \A f \in IdentifierFields :
                  out.val[f].some =>
                     /\ RawOf(op.parts, f).some
                     /\ out.val[f].v = unquote(RawOf(op.parts, f).v)
                     /\ FullMatch(out.val[f].v, ClassOf(f))
        /\ (Extracts(reg, op.parts) /\ Offending(op.parts) # {}) =>
             /\ ~out.ok
             /\ out.code = "INVALID_INPUT"
             /\ out.field \in Offending(op.parts)

\* C11 witness: the run and task identifiers of a log URL come back decoded
C11_Witness ==
    /\ IsParse
    /\ out.ok
    /\ op.parts.segs = LogT
    /\ out.val.dag_run_id = Some(I_runPlus)
    /\ out.val.task_id = Some(I_taskPlus)
    /\ I_runPlus # P_runEnc

FiveRoutes == {S_grid, S_graph, S_dag_run, S_task, S_log}

\* The route lacks an identifier it requires besides dag_id (an empty string
\* counts as absent, a try_number of 0 as present)
MissingFor(a) ==
    \/ a.route = S_dag_run /\ ~Truthy(a.dag_run_id)
    \/ a.route = S_task /\ ~Truthy(a.task_id)
    \/ a.route = S_log /\ (~Truthy(a.dag_run_id) \/ ~Truthy(a.task_id) \/ ~a.try_number.some)

\* The supplied identifiers, among the given fields, that break their pattern
BadAmong(a, fields) ==
    { f \in fields : a[f].some /\ ~FullMatch(a[f].v, ClassOf(f)) }

\* The identifiers a route puts into its URL besides dag_id
UsedBy(route) ==
    IF route \in {S_task, S_log} THEN {"dag_run_id", "task_id"} ELSE {"dag_run_id"}

FailsWith(code) == ~out.ok /\ out.code = code

\* C12 as stated: a missing required identifier, an unsupported route or any
\* supplied identifier that breaks its pattern gives INVALID_INPUT; otherwise
\* an unregistered instance key gives NOT_FOUND
C12_BuildErrorsAsStated ==
    IsBuild =>
        IF \/ ~Truthy(op.dag_id) \/ MissingFor(op) \/ op.route \notin FiveRoutes
           \/ BadAmong(op, IdentifierFields) # {}
        THEN FailsWith("INVALID_INPUT")
        ELSE (op.instance \notin RegKeys(reg)) => FailsWith("NOT_FOUND")

\* C12 amended: the checks are made in a fixed order and the first that fails
\* decides: a malformed instance key and then a missing or malformed dag_id
\* give INVALID_INPUT; then an unregistered key gives NOT_FOUND; then an
\* unsupported route or a missing required identifier gives INVALID_INPUT;
\* then a malformed identifier among those the route uses gives INVALID_INPUT
\* naming it; identifiers the route does not use are not validated, and in
\* every other case a URL is returned
C12_BuildErrorsInOrder ==
    IsBuild =>
        IF ~SyntacticKey(op.instance)
        THEN FailsWith("INVALID_INPUT") /\ out.field = "instance"
        ELSE IF ~Truthy(op.dag_id) \/ BadAmong(op, {"dag_id"}) # {}
        THEN FailsWith("INVALID_INPUT") /\ out.field = "dag_id"
        ELSE IF op.instance \notin RegKeys(reg)
        THEN FailsWith("NOT_FOUND")
        ELSE IF op.route \notin FiveRoutes \/ MissingFor(op)
        THEN FailsWith("INVALID_INPUT") /\ out.field \notin IdentifierFields
        ELSE IF BadAmong(op, UsedBy(op.route)) # {}
        THEN FailsWith("INVALID_INPUT") /\ out.field \in BadAmong(op, UsedBy(op.route))
        ELSE out.ok

\* C12 witness: an unregistered key with an unsupported route is NOT_FOUND
C12_Witness ==
    /\ IsBuild
    /\ op.instance = K_nope
    /\ op.instance \notin RegKeys(reg)
    /\ op.route = S_unknown
    /\ op.dag_id = Some(I_dag)
    /\ FailsWith("NOT_FOUND")

\* C13 as stated: a parse that returns route unknown returns no identifier
C13_UnknownAllNull ==
    (IsParse /\ out.ok /\ out.val.route = S_unknown) =>
        /\ out.val.dag_id = None
        /\ out.val.dag_run_id = None
        /\ out.val.task_id = None
        /\ out.val.try_number = NoInt

\* C13 amended: a parse that returns route unknown returns no dag_run_id,
\* task_id or try_number; its dag_id is the decoded second segment when the
\* path begins with dags/{dag_id}, and null otherwise
C13_UnknownKeepsDagOnly ==
    (IsParse /\ out.ok /\ out.val.route = S_unknown) =>
        /\ out.val.dag_run_id = None
        /\ out.val.task_id = None
        /\ out.val.try_number = NoInt
        /\ out.val.dag_id = (IF Len(op.parts.segs) >= 2 /\ op.parts.segs[1] = S_dags
                             THEN Some(unquote(op.parts.segs[2])) ELSE None)

\* C13 witness: dags/{dag_id}/dagRuns selects no route and keeps the dag_id
C13_Witness ==
    /\ IsParse
    /\ out.ok
    /\ out.val.route = S_unknown
    /\ op.parts.segs = <<S_dags, I_dag, S_dagRuns>>
    /\ out.val.dag_id = Some(I_dag)

\* C14: every ResolvedUrl that parse_airflow_ui_url or resolve_and_validate
\* returns names a non-empty instance that is a key of the registry
C14_InstanceRegistered ==
    ((IsParse \/ IsParseBuilt \/ IsResolve) /\ out.ok) =>
        /\ out.val.instance # <<>>
        /\ out.val.instance \in RegKeys(reg)

\* C14 witness: an instance given alone is returned after the lookup
C14_Witness ==
    /\ IsResolve
    /\ ~Given(op.ui_url)
    /\ Given(op.instance)
    /\ out.ok
    /\ out.val.instance = op.instance.v
    /\ K_nope \notin RegKeys(reg)

\* the indices of the configured instances whose hostname is host
InstancesOn(r, host) == { i \in DOMAIN r : hostname(urlparse(r[i].host)) = host }

\* the parse got as far as the lookup of the host
LooksUpHost(parts) ==
    lower(parts.scheme) \in {S_http, S_https} /\ AuthorityHost(parts) # <<>>

\* C22: when several configured instances have the hostname of the URL, the
\* lookup yields the first of them in the order of the registry, so the
\* result depends on the registry and the URL alone: a ResolvedUrl names that
\* instance, and the parse never fails with NOT_FOUND
C22_FirstMatchWins ==
    (/\ IsParse
     /\ LooksUpHost(op.parts)
     /\ Cardinality(InstancesOn(reg, AuthorityHost(op.parts))) >= 2) =>
        /\ out.ok => out.val.instance = reg[First(InstancesOn(reg, AuthorityHost(op.parts)))].key
        /\ out.code # "NOT_FOUND"
        /\ out = parse_airflow_ui_url(reg, op.url)

\* C22 witness: a URL on the hostname that stg and ml share resolves to stg,
\* the first of the two
C22_Witness ==
    /\ IsParse
    /\ InstancesOn(reg, AuthorityHost(op.parts)) = {1, 2}
    /\ reg[1].key = K_stg
    /\ reg[2].key = K_ml
    /\ out.ok
    /\ out.val.instance = K_stg

\* the host of an authority, letter case as written
HostAsReceived(netloc) ==
    LET hostinfo == From(netloc, RFind(netloc, "@") + 1)
    IN  IF FindAny(hostinfo, {":"}) = 0 THEN hostinfo
        ELSE SubSeq(hostinfo, 1, FindAny(hostinfo, {":"}) - 1)

\* the hostnames of the configured instances, letter case as written
ConfiguredAsReceived(r) == { HostAsReceived(urlparse(r[i].host).netloc) : i \in DOMAIN r }

\* the URL's hostname is that of a configured instance up to letter case only
DiffersInCaseOnly(r, parts) ==
    /\ HostAsReceived(parts.host) \notin ConfiguredAsReceived(r)
    /\ \E h \in ConfiguredAsReceived(r) : h # <<>> /\ lower(h) = lower(HostAsReceived(parts.host))

\* C23 as stated: a URL whose hostname differs from a configured hostname
\* only in letter case matches no instance and fails with NOT_FOUND
C23_CaseSensitiveHost ==
    (IsParse /\ LooksUpHost(op.parts) /\ DiffersInCaseOnly(reg, op.parts)) =>
        /\ ~out.ok
        /\ out.code = "NOT_FOUND"

\* C23 amended: hostnames are compared in lower case on both sides; the
\* parse fails with NOT_FOUND exactly when no configured hostname equals the
\* URL's hostname up to letter case
C23_HostMatchIgnoresCase ==
    (IsParse /\ LooksUpHost(op.parts)) =>
        ((~out.ok /\ out.code = "NOT_FOUND") <=>
            ~\E h \in ConfiguredAsReceived(reg) :
                h # <<>> /\ lower(h) = lower(HostAsReceived(op.parts.host)))

\* C23 witness: a URL written with an upper-case hostname resolves to the
\* instance configured in lower case
C23_Witness ==
    /\ IsParse
    /\ DiffersInCaseOnly(reg, op.parts)
    /\ reg = RegPlain
    /\ HostAsReceived(op.parts.host) = <<"A", ".", "e", "x">>
    /\ out.ok
    /\ out.val.instance = K_stg

-----------------------------------------------------------------------------
(* Text of a task log: characters, UTF-8 and lines                          *)

\* Characters outside ASCII, named by code point: e-acute (2 bytes in UTF-8),
\* the euro sign (3 bytes) and an emoji (4 bytes)
U_00E9 == "U+00E9"
U_20AC == "U+20AC"
U_1F600 == "U+1F600"

\* A lone surrogate: a str may hold it (ast.literal_eval and json.loads produce
\* it from an escape), UTF-8 cannot encode it
U_D800 == "U+D800"

LF == "\n"
CR == "\r"

\* number of bytes of one character under str.encode() (UTF-8)
Utf8Len(c) ==
    CASE c = U_00E9 -> 2
      [] c = U_20AC -> 3
      [] c = U_1F600 -> 4
      [] OTHER -> 1

\* the k-th byte of character c is the pair <<c, k>>
CharBytes(c) == [k \in 1..Utf8Len(c) |-> <<c, k>>]

\* str.encode() raises UnicodeEncodeError on a lone surrogate
CanEncode(s) == U_D800 \notin Range(s)

\* str.encode() of a string it can encode
RECURSIVE encode(_)
encode(s) == IF s = <<>> THEN <<>> ELSE CharBytes(Head(s)) \o encode(Tail(s))

\* b starts with all the bytes of one character
StartsWithChar(b) ==
    /\ b[1][2] = 1
    /\ Len(b) >= Utf8Len(b[1][1])
    /\ \A k \in 1..Utf8Len(b[1][1]) : b[k] = <<b[1][1], k>>

\* bytes.decode(errors="ignore"): bytes that do not form a whole character
\* are dropped
RECURSIVE decode_ignore(_)
decode_ignore(b) ==
    IF b = <<>> THEN <<>>
    ELSE IF StartsWithChar(b)
         THEN <<b[1][1]>> \o decode_ignore(From(b, Utf8Len(b[1][1]) + 1))
         ELSE decode_ignore(Tail(b))

\* b[:n] of Python, n of either sign
SlicePrefix(b, n) ==
    IF n >= 0 THEN Take(b, n)
    ELSE IF Len(b) + n > 0 THEN Take(b, Len(b) + n) ELSE <<>>

\* index after the line break that starts at position i of s
AfterBreak(s, i) ==
    IF s[i] = CR /\ i < Len(s) /\ s[i+1] = LF THEN i + 2 ELSE i + 1

\* str.splitlines(): breaks are "\n", "\r" and "\r\n"; no empty last line
RECURSIVE splitlines(_)
splitlines(s) ==
    IF s = <<>> THEN <<>>
    ELSE IF FindAny(s, {LF, CR}) = 0 THEN <<s>>
    ELSE <<SubSeq(s, 1, FindAny(s, {LF, CR}) - 1)>>
         \o splitlines(From(s, AfterBreak(s, FindAny(s, {LF, CR}))))

\* lines[-n:] for n > 0
LastLines(lines, n) ==
    IF n >= Len(lines) THEN lines ELSE SubSeq(lines, Len(lines) - n + 1, Len(lines))

\* \w of a str pattern: letters, digits, underscore (e-acute is a letter)
IsWord(c) == c \in AlnumSet \cup {"_", U_00E9}

\* \b(word)\b matches at position i of line, ignoring case (re.IGNORECASE)
MatchAt(line, i, word) ==
    /\ i + Len(word) - 1 <= Len(line)
    /\ upper(SubSeq(line, i, i + Len(word) - 1)) = upper(word)
    /\ (i = 1 \/ ~IsWord(line[i-1]))
    /\ (i + Len(word) - 1 = Len(line) \/ ~IsWord(line[i + Len(word)]))

\* pattern.search(line) for a pattern \b(w1|w2|...)\b
search(words, line) == \E w \in words : \E i \in DOMAIN line : MatchAt(line, i, w)

W_ERROR == <<"E","R","R","O","R">>
W_CRITICAL == <<"C","R","I","T","I","C","A","L">>
W_FATAL == <<"F","A","T","A","L">>
W_Exception == <<"E","x","c","e","p","t","i","o","n">>
W_Traceback == <<"T","r","a","c","e","b","a","c","k">>
W_WARN == <<"W","A","R","N">>
W_WARNING == <<"W","A","R","N","I","N","G">>
W_INFO == <<"I","N","F","O">>

\* the patterns dictionary of _filter_logs
patterns ==
    [error |-> {W_ERROR, W_CRITICAL, W_FATAL, W_Exception, W_Traceback},
     warning |-> {W_WARN, W_WARNING, W_ERROR, W_CRITICAL, W_FATAL},
     info |-> {W_INFO, W_WARN, W_ERROR, W_CRITICAL}]

-----------------------------------------------------------------------------
(* tools/task_logs.py: _filter_logs                                         *)

NoLevel == [some |-> FALSE, v |-> ""]

\* Mutation: returned_lines counts the lines of the input
LogResult_CountInput(text, truncated, original_count, lines, match_count) ==
    [ok |-> TRUE, exc |-> "", text |-> text, truncated |-> truncated,
     bytes_returned |-> Len(encode(text)), original_lines |-> original_count,
     returned_lines |-> original_count, match_count |-> match_count, lines |-> lines]

\* the value _filter_logs returns: (result, truncated, stats); lines is the
\* local variable of that name at the return
LogResult(text, truncated, original_count, lines, match_count) ==
    [ok |-> TRUE, exc |-> "", text |-> text, truncated |-> truncated,
     bytes_returned |-> Len(encode(text)), original_lines |-> original_count,
     returned_lines |-> Len(lines), match_count |-> match_count, lines |-> lines]

\* an exception leaves _filter_logs
LogRaise(exc) ==
    [ok |-> FALSE, exc |-> exc, text |-> <<>>, truncated |-> FALSE,
     bytes_returned |-> 0, original_lines |-> 0, returned_lines |-> 0,
     match_count |-> 0, lines |-> <<>>]

\* [lines[i] for i in sorted(indices)], from index i on (indices count from 1)
RECURSIVE AtIndices(_, _, _)
AtIndices(lines, indices, i) ==
    IF i > Len(lines) THEN <<>>
    ELSE (IF i \in indices THEN <<lines[i]>> ELSE <<>>) \o AtIndices(lines, indices, i + 1)

\* Step 4, truncation: result.encode()[:max_bytes].decode(errors="ignore")
SizeCapBytes(original_count, lines, match_count, max_bytes, result, bytes) ==
    IF Len(bytes) > max_bytes
    THEN LogResult(decode_ignore(SlicePrefix(bytes, max_bytes)), TRUE,
                   original_count, lines, match_count)
    ELSE LogResult(result, FALSE, original_count, lines, match_count)

\* Step 4, size cap on "\n".join(lines)
SizeCapText(original_count, lines, match_count, max_bytes, result) ==
    IF CanEncode(result)
    THEN SizeCapBytes(original_count, lines, match_count, max_bytes, result, encode(result))
    ELSE LogRaise("UnicodeEncodeError")

SizeCap(original_count, lines, match_count, max_bytes) ==
    SizeCapText(original_count, lines, match_count, max_bytes, join(lines, <<LF>>))

\* Mutation: the context of a match reaches backwards only
ExpandedIndices_Before(n, matched_indices, context_lines) ==
    { j \in 1..n : \E idx \in matched_indices : j >= idx - context_lines /\ j <= idx }

\* Step 3: the union of range(max(0, idx - c), min(len(lines), idx + c + 1));
\* indices count from 1 here
ExpandedIndices(n, matched_indices, context_lines) ==
    { j \in 1..n : \E idx \in matched_indices :
        /\ j >= (IF idx - context_lines > 1 THEN idx - context_lines ELSE 1)
        /\ j <= (IF idx + context_lines < n THEN idx + context_lines ELSE n) }

\* Mutation: the matches are counted after the context was added
ContextStep_CountAfter(original_count, lines, matched_indices, context_lines, max_bytes) ==
    IF context_lines.some /\ context_lines.v # 0 /\ matched_indices # {}
    THEN SizeCap(original_count,
                 AtIndices(lines, ExpandedIndices(Len(lines), matched_indices,
                                                  context_lines.v), 1),
                 Cardinality(ExpandedIndices(Len(lines), matched_indices,
                                             context_lines.v)), max_bytes)
    ELSE SizeCap(original_count, AtIndices(lines, matched_indices, 1),
                 Cardinality(matched_indices), max_bytes)

\* the lines around each match, one window after the other
RECURSIVE WindowsAt(_, _, _, _)
WindowsAt(lines, matched_indices, context_lines, i) ==
    IF i > Len(lines) THEN <<>>
    ELSE (IF i \in matched_indices
          THEN AtIndices(lines, ExpandedIndices(Len(lines), {i}, context_lines), 1)
          ELSE <<>>) \o WindowsAt(lines, matched_indices, context_lines, i + 1)

\* Mutation: the windows of the matches are appended instead of united
ContextStep_PerMatch(original_count, lines, matched_indices, context_lines, max_bytes) ==
    IF context_lines.some /\ context_lines.v # 0 /\ matched_indices # {}
    THEN SizeCap(original_count,
                 WindowsAt(lines, matched_indices, context_lines.v, 1),
                 Cardinality(matched_indices), max_bytes)
    ELSE SizeCap(original_count, AtIndices(lines, matched_indices, 1),
                 Cardinality(matched_indices), max_bytes)

\* Step 3: context expansion, or the matching lines alone
ContextStep(original_count, lines, matched_indices, context_lines, max_bytes) ==
    IF context_lines.some /\ context_lines.v # 0 /\ matched_indices # {}
    THEN SizeCap(original_count,
                 AtIndices(lines, ExpandedIndices(Len(lines), matched_indices,
                                                  context_lines.v), 1),
                 Cardinality(matched_indices), max_bytes)
    ELSE SizeCap(original_count, AtIndices(lines, matched_indices, 1),
                 Cardinality(matched_indices), max_bytes)

\* [i for i, line in enumerate(lines) if pattern.search(line)]
MatchedIndices(lines, words) == { i \in DOMAIN lines : search(words, lines[i]) }

\* Mutation: a level without a pattern matches no line
FilterStep_NoPattern(original_count, lines, filter_level, context_lines, max_bytes) ==
    IF filter_level.some /\ filter_level.v # ""
    THEN ContextStep(original_count, lines,
                     IF filter_level.v \in DOMAIN patterns
                     THEN MatchedIndices(lines, patterns[filter_level.v]) ELSE {},
                     context_lines, max_bytes)
    ELSE SizeCap(original_count, lines, 0, max_bytes)

\* Step 2: content filtering
FilterStep(original_count, lines, filter_level, context_lines, max_bytes) ==
    IF filter_level.some /\ filter_level.v # "" /\ filter_level.v \in DOMAIN patterns
    THEN ContextStep(original_count, lines,
                     MatchedIndices(lines, patterns[filter_level.v]),
                     context_lines, max_bytes)
    ELSE SizeCap(original_count, lines, 0, max_bytes)

\* Mutation: the tail is not extracted
TailLines_All(lines, tail_lines) == lines

\* Step 1: lines[-tail_lines:] when tail_lines is given and positive
TailLines(lines, tail_lines) ==
    IF tail_lines.some /\ tail_lines.v > 0 THEN LastLines(lines, tail_lines.v) ELSE lines

\* Mutation: a tail of 0 lines does not return early
TailStep_NoEarlyReturn(lines, filter_level, context_lines, tail_lines, max_bytes) ==
    FilterStep(Len(lines), TailLines(lines, tail_lines), filter_level,
               context_lines, max_bytes)

\* Step 1: tail extraction, with the early return for tail_lines == 0
TailStep(lines, filter_level, context_lines, tail_lines, max_bytes) ==
    IF tail_lines.some /\ tail_lines.v = 0
    THEN LogResult(<<>>, FALSE, Len(lines), <<>>, 0)
    ELSE FilterStep(Len(lines), TailLines(lines, tail_lines), filter_level,
                    context_lines, max_bytes)

_filter_logs(raw_log, filter_level, context_lines, tail_lines, max_bytes) ==
    TailStep(splitlines(raw_log), filter_level, context_lines, tail_lines, max_bytes)

-----------------------------------------------------------------------------
(* tools/_common.py: _coerce_int; tools/task_logs.py: get_task_instance_logs *)

\* A tool argument as the client sent it: absent, a bool, an int, a float
\* (n is its integer part, whole says whether it has no fraction) or a string
RawNone == [kind |-> "none", n |-> 0, whole |-> TRUE, s |-> <<>>]
RawBool(b) == [kind |-> "bool", n |-> IF b THEN 1 ELSE 0, whole |-> TRUE, s |-> <<>>]
RawInt(n) == [kind |-> "int", n |-> n, whole |-> TRUE, s |-> <<>>]
RawFloat(n, whole) == [kind |-> "float", n |-> n, whole |-> whole, s |-> <<>>]
RawStr(s) == [kind |-> "str", n |-> 0, whole |-> TRUE, s |-> s]

_coerce_int(value) ==
    CASE value.kind = "bool" -> Some(value.n)
      [] value.kind = "int" -> Some(value.n)
      [] value.kind = "float" -> IF value.whole THEN Some(value.n) ELSE NoInt
      [] value.kind = "str" -> IF IsIntLiteral(value.s) THEN Some(IntOf(value.s)) ELSE NoInt
      [] OTHER -> NoInt

\* The size above which a log is tailed unasked, and the number of lines kept.
\* The program uses 100_000_000 characters and 10000 lines; the model scales
\* both down so that its logs reach them.
AUTO_TAIL_CHARS == 12
AUTO_TAIL_LINES == 2

MAX_TAIL_LINES == 100000
MAX_CONTEXT_LINES == 1000
DEFAULT_MAX_BYTES == 100000

AutoTailed(log_text) == log_text # <<>> /\ Len(log_text) > AUTO_TAIL_CHARS

\* Mutation: an oversized log is flagged but not reduced
AutoTail_Skip(log_text) == log_text

\* "\n".join(log_text.splitlines()[-10000:]) for an oversized log
AutoTail(log_text) ==
    IF AutoTailed(log_text)
    THEN join(LastLines(splitlines(log_text), AUTO_TAIL_LINES), <<LF>>)
    ELSE log_text

\* Mutation: only the upper bound is enforced
Clamp_UpperOnly(value, hi) ==
    IF ~value.some THEN NoInt
    ELSE IF value.v > hi THEN Some(hi)
    ELSE value

\* None if value is None else max(0, min(value, hi))
Clamp(value, hi) ==
    IF ~value.some THEN NoInt
    ELSE IF value.v > hi THEN Some(hi)
    ELSE IF value.v < 0 THEN Some(0)
    ELSE value

\* The payload of get_task_instance_logs, without meta.try_number and ui_url
Payload(filtered, auto_tailed, filter_level, context_lines_clamped, tail_lines_clamped, max_bytes) ==
    [ok |-> filtered.ok, exc |-> filtered.exc, log |-> filtered.text,
     truncated |-> filtered.truncated, auto_tailed |-> filtered.ok /\ auto_tailed,
     bytes_returned |-> filtered.bytes_returned,
     original_lines |-> filtered.original_lines,
     returned_lines |-> filtered.returned_lines,
     match_count |-> filtered.match_count, lines |-> filtered.lines,
     filters |-> [filter_level |-> filter_level,
                  context_lines |-> context_lines_clamped,
                  tail_lines |-> tail_lines_clamped, max_bytes |-> max_bytes]]

FilterAndReport(log_text, auto_tailed, filter_level, context_lines_clamped, tail_lines_clamped, max_bytes) ==
    Payload(_filter_logs(log_text, filter_level, context_lines_clamped,
                         tail_lines_clamped, max_bytes),
            auto_tailed, filter_level, context_lines_clamped, tail_lines_clamped,
            max_bytes)

\* get_task_instance_logs from the fetched log_text on
get_task_instance_logs(log_text, filter_level, context_lines, tail_lines, max_bytes) ==
    FilterAndReport(AutoTail(log_text), AutoTailed(log_text), filter_level,
                    Clamp(_coerce_int(context_lines), MAX_CONTEXT_LINES),
                    Clamp(_coerce_int(tail_lines), MAX_TAIL_LINES), max_bytes)

-----------------------------------------------------------------------------
(* tools/task_logs.py: _normalize_log_host, _flatten_log_segments,          *)
(* _coerce_log_text                                                         *)

\* str.strip() removes whitespace; these are the whitespace characters of
\* the model's alphabet
WhitespaceSet == {" ", "\t", LF, CR}

\* str.lstrip(chars)
RECURSIVE lstrip(_, _)
lstrip(s, cs) == IF s # <<>> /\ s[1] \in cs THEN lstrip(Tail(s), cs) ELSE s

\* str.rstrip(chars)
RECURSIVE rstripSet(_, _)
rstripSet(s, cs) ==
    IF s # <<>> /\ s[Len(s)] \in cs THEN rstripSet(SubSeq(s, 1, Len(s)-1), cs) ELSE s

\* str.strip(chars)
strip(s, cs) == rstripSet(lstrip(s, cs), cs)

\* the replacement character of bytes.decode(errors="replace")
U_FFFD == "U+FFFD"

\* number of bytes at the head of b that are the first bytes, in order, of
\* the character whose lead byte is b[1]
RECURSIVE LeadRun(_, _)
LeadRun(b, k) ==
    IF k < Len(b) /\ k < Utf8Len(b[1][1]) /\ b[k+1] = <<b[1][1], k+1>>
    THEN LeadRun(b, k + 1) ELSE k

\* bytes.decode("utf-8", errors="replace"): a cut character and a stray
\* continuation byte each become one U+FFFD
RECURSIVE decode_replace(_)
decode_replace(b) ==
    IF b = <<>> THEN <<>>
    ELSE IF StartsWithChar(b)
         THEN <<b[1][1]>> \o decode_replace(From(b, Utf8Len(b[1][1]) + 1))
         ELSE IF b[1][2] = 1
              THEN <<U_FFFD>> \o decode_replace(From(b, LeadRun(b, 1) + 1))
              ELSE <<U_FFFD>> \o decode_replace(Tail(b))

S_unknown_host == <<"u","n","k","n","o","w","n","-","h","o","s","t">>
S_list_prefix == <<"[", "(", "'">>

\* _normalize_log_host(host), host None or a str
_normalize_log_host(host) ==
    IF ~host.some THEN S_unknown_host
    ELSE IF strip(host.v, WhitespaceSet) = <<>> THEN S_unknown_host
    ELSE strip(host.v, WhitespaceSet)

\* f"--- [{normalized_host}] ---"
Divider(normalized_host) ==
    <<"-","-","-"," ","[">> \o normalized_host \o <<"]"," ","-","-","-">>

\* A segment of a host-segmented log: a tuple or list of two or more
\* items ("pair"), of one item ("single"), of none ("empty"), or a bare str
\* ("bare", held in text)
Segment(kind, host, text) == [kind |-> kind, host |-> host, text |-> text]

\* host of the loop body of _flatten_log_segments
SegmentHost(raw_segment) ==
    IF raw_segment.kind \in {"pair", "single"} THEN raw_segment.host ELSE None

\* text of the loop body of _flatten_log_segments
SegmentText(raw_segment) ==
    IF raw_segment.kind \in {"pair", "bare"} THEN raw_segment.text ELSE Some(<<>>)

\* text_value = "" if text is None else str(text)
TextValue(text) == IF text.some THEN text.v ELSE <<>>

\* the parts one segment appends: a separator unless it is the first, the
\* divider, and the text when it is not empty
SegmentParts(idx, raw_segment) ==
    (IF idx # 0 THEN << <<>> >> ELSE <<>>)
    \o << Divider(_normalize_log_host(SegmentHost(raw_segment))) >>
    \o (IF TextValue(SegmentText(raw_segment)) # <<>>
        THEN << rstripSet(TextValue(SegmentText(raw_segment)), {LF}) >>
        ELSE <<>>)

\* parts after the loop over segments[idx:], idx counted from 0
RECURSIVE FlattenParts(_, _)
FlattenParts(segments, idx) ==
    IF idx >= Len(segments) THEN <<>>
    ELSE SegmentParts(idx, segments[idx + 1]) \o FlattenParts(segments, idx + 1)

\* _flatten_log_segments(segments), segments a list or tuple
_flatten_log_segments(segments) ==
    strip(join(FlattenParts(segments, 0), <<LF>>), {LF})

\* what _coerce_log_text returns or raises
CoerceOk(text) == [ok |-> TRUE, exc |-> "", text |-> text]
CoerceRaise(exc) == [ok |-> FALSE, exc |-> exc, text |-> <<>>]

\* The outcome of ast.literal_eval on a str: the exception it raises, or the
\* value, here a list of segments
EvalRaises(exc) == [exc |-> exc, list |-> FALSE, value |-> <<>>]
EvalList(segments) == [exc |-> "", list |-> TRUE, value |-> segments]

\* A response: a str (with the outcome literal_eval has on it), or a value
\* that is bytes, a list, None or a str found in the content attribute of a
\* response object (attr) or given directly
Response(kind, attr, text, bytes, segments, eval) == [kind |-> kind, attr |-> attr, text |-> text, bytes |-> bytes, segments |-> segments, eval |-> eval]

\* the str branch of _coerce_log_text
CoerceStr(response) ==
    IF ~StartsWith(strip(response.text, WhitespaceSet), S_list_prefix)
    THEN CoerceOk(response.text)
    ELSE IF response.eval.exc \in {"ValueError", "SyntaxError"}
    THEN CoerceOk(response.text)
    ELSE IF response.eval.exc # "" THEN CoerceRaise(response.eval.exc)
    ELSE IF response.eval.list
    THEN CoerceOk(_flatten_log_segments(response.eval.value))
    ELSE CoerceOk(response.text)

\* the branches of _coerce_log_text on content
CoerceContent(content) ==
    CASE content.kind = "bytes" -> CoerceOk(decode_replace(content.bytes))
      [] content.kind = "list" -> CoerceOk(_flatten_log_segments(content.segments))
      [] content.kind = "none" -> CoerceOk(<<>>)
      [] OTHER -> CoerceOk(content.text)

\* _coerce_log_text(response)
_coerce_log_text(response) ==
    IF response.kind = "str" /\ ~response.attr THEN CoerceStr(response)
    ELSE CoerceContent(response)

-----------------------------------------------------------------------------
(* Logs and options the model feeds to the log filter                       *)

MaxLines == 3
MaxCtx == 2
MaxBytes == 12
MaxLong == 7
MaxPipeLines == 4

L_error == <<"E","R","R","O","R"," ","a">>
L_x == <<"x">>
L_traceback == <<"T","r","a","c","e","b","a","c","k">>
L_exception == <<"a","n"," ","E","x","c","e","p","t","i","o","n",":">>
L_warning == <<"w","a","r","n","i","n","g">>
L_warn == <<"[","W","A","R","N","]">>
L_info == <<"I","N","F","O"," ","b">>
L_fatal == <<"f","a","t","a","l">>
L_critical == <<"C","R","I","T","I","C","A","L">>
L_errors == <<"E","R","R","O","R","S">>
L_multi == <<U_00E9, U_20AC, U_1F600>>
L_surrogate == <<"a", U_D800>>

\* all sequences of at most n elements of the set V
SeqsUpTo(V, n) == UNION { [1..k -> V] : k \in 0..n }

LogInput(raw_log, filter_level, context_lines, tail_lines, max_bytes) ==
    [raw_log |-> raw_log, filter_level |-> filter_level,
     context_lines |-> context_lines, tail_lines |-> tail_lines,
     max_bytes |-> max_bytes]

OptInts(S) == {NoInt} \cup { Some(n) : n \in S }

\* one or two lines of every kind, under each level
LevelLines == {L_error, L_x, L_traceback, L_exception, L_warning, L_warn, L_info,
               L_fatal, L_critical, L_errors, L_multi}
LevelInputs ==
    { LogInput(join(ls, <<LF>>), Some(level), NoInt, NoInt, DEFAULT_MAX_BYTES) :
        ls \in SeqsUpTo(LevelLines, 2) \ {<<>>}, level \in {"error", "warning", "info"} }

\* short logs under every combination of the options
StageLines == {L_error, L_x, L_multi}
StageInputs ==
    { LogInput(join(ls, <<LF>>), level, ctx, tail, max) :
        ls \in SeqsUpTo(StageLines, MaxLines),
        level \in {NoLevel, Some(""), Some("error"), Some("debug")},
        ctx \in OptInts(-1..MaxCtx), tail \in OptInts(-1..MaxLines),
        max \in {0, 4, DEFAULT_MAX_BYTES} }

\* characters of several bytes, and characters without bytes, under every cap
CapLogs == { <<L_multi>>, <<L_x, L_multi>>, <<L_multi, L_multi>>, <<L_error, L_multi>>,
             <<L_surrogate>>, <<L_x, L_surrogate>>, <<L_surrogate, L_error>> }
CapInputs ==
    { LogInput(join(ls, <<LF>>), level, NoInt, tail, max) :
        ls \in CapLogs, level \in {NoLevel, Some("error")},
        tail \in {NoInt, Some(0), Some(1)}, max \in -1..MaxBytes }

\* longer logs with one or two ERROR lines, for wide contexts
LongLines(n, at) == [i \in 1..n |-> IF i \in at THEN L_error ELSE L_x]
LongLogs ==
    { LongLines(n, {i, j}) : n \in 6..MaxLong, i \in 1..MaxLong, j \in 1..MaxLong }
LongInputs ==
    { LogInput(join(ls, <<LF>>), Some("error"), Some(ctx), tail, DEFAULT_MAX_BYTES) :
        ls \in LongLogs, ctx \in {1, 5, MAX_CONTEXT_LINES}, tail \in {NoInt, Some(6)} }

\* every kind of line break
BreakLogs == { <<"a", CR, LF, "E","R","R","O","R", CR, "x", LF>>,
               <<LF>>, <<"x", LF, LF, "x">>, <<CR, LF, CR, LF>>,
               <<"x", LF, CR, "f","a","t","a","l">> }
BreakInputs ==
    { LogInput(t, level, ctx, tail, DEFAULT_MAX_BYTES) :
        t \in BreakLogs, level \in {NoLevel, Some("error")},
        ctx \in {NoInt, Some(1)}, tail \in {NoInt, Some(1), Some(2)} }

\* "ERROR a / INFO b / ERROR c"
L_errorC == <<"E","R","R","O","R"," ","c">>
ExampleLog == <<L_error, L_info, L_errorC>>
ExampleInputs ==
    { LogInput(join(ExampleLog, <<LF>>), level, ctx, tail, DEFAULT_MAX_BYTES) :
        level \in {Some("error"), Some("info"), Some("ERROR"), Some("debug")},
        ctx \in OptInts({0, 1}), tail \in OptInts({0, 2}) }

FilterInputs ==
    LevelInputs \cup StageInputs \cup CapInputs \cup LongInputs \cup BreakInputs
    \cup ExampleInputs

\* what get_task_instance_logs receives
PipeLines == {L_error, L_x}
RawContexts == {RawNone, RawInt(-1), RawInt(1), RawInt(MAX_CONTEXT_LINES + 1),
                RawStr(<<"1">>), RawStr(<<"x">>), RawBool(TRUE), RawFloat(2, TRUE)}
RawTails == {RawNone, RawInt(-5), RawInt(0), RawInt(1), RawInt(3),
             RawInt(MAX_TAIL_LINES + 1), RawStr(<<"2">>), RawFloat(1, FALSE)}
\* logs with empty lines, below and above the auto-tail size
PipeBlankLogs == { <<L_error, L_x, <<>>, L_x>>, <<L_error, L_error, <<>>, <<>>>>,
                   <<L_x, <<>>, <<>>>>, <<L_error, L_x, L_error, <<>>>> }
\* levels that are not keys of patterns
PipeLevelInputs ==
    { LogInput(join(ExampleLog, <<LF>>), level, ctx, tail, DEFAULT_MAX_BYTES) :
        level \in {Some(""), Some("debug"), Some("ERROR")},
        ctx \in {RawNone, RawInt(1)}, tail \in {RawNone, RawInt(1)} }
PipeInputs ==
    { LogInput(join(ls, <<LF>>), level, ctx, tail, max) :
        ls \in SeqsUpTo(PipeLines, MaxPipeLines) \cup PipeBlankLogs,
        level \in {NoLevel, Some("error")},
        ctx \in RawContexts, tail \in RawTails, max \in {5, DEFAULT_MAX_BYTES} }
    \cup PipeLevelInputs

\* Host-segmented logs: at most MaxSegs segments
MaxSegs == 2

S_h1 == <<"h", "1">>
SegHosts == {None, Some(<<>>), Some(S_h1), Some(<<" ", "h", "2", " ">>)}
SegTexts == {Some(<<>>), Some(<<"C">>), Some(<<"A", LF>>), Some(<<LF>>),
             Some(<<"A", LF, "B">>)}
PairSegments == { Segment("pair", h, t) : h \in SegHosts, t \in SegTexts }
OddSegments == { Segment("pair", None, None), Segment("single", Some(S_h1), None),
                 Segment("empty", None, None), Segment("bare", None, Some(<<"C">>)) }
SegmentLists == SeqsUpTo(PairSegments \cup OddSegments, MaxSegs)

NoEval == EvalRaises("")

\* a log that is not a serialized list
R_plain == Response("str", FALSE, <<"E", "R", "R", "O", "R", " ", "a", LF, "b">>, <<>>, <<>>, EvalRaises("SyntaxError"))

\* a serialized tuple: not tried, it does not start with [('
R_tuple == Response("str", FALSE, <<"(", "'", "h", "1", "'", ",", " ", "'", "C", "'", ")">>, <<>>, <<>>, EvalList(<< Segment("bare", None, Some(<<"h", "1">>)), Segment("bare", None, Some(<<"C">>)) >>))

\* repr of [('h1', 'C')]
R_one == Response("str", FALSE, <<"[", "(", "'", "h", "1", "'", ",", " ", "'", "C", "'", ")", "]">>, <<>>, <<>>, EvalList(<< Segment("pair", Some(<<"h", "1">>), Some(<<"C">>)) >>))

\* repr of the two segments of the example, with whitespace around it
R_two == Response("str", FALSE, <<" ", "[", "(", "'", "h", "1", "'", ",", " ", "'", "A", "\\", "n", "B", "'", ")", ",", " ", "(", "'", "'", ",", " ", "'", "C", "'", ")", "]", LF>>, <<>>, <<>>, EvalList(<< Segment("pair", Some(<<"h", "1">>), Some(<<"A", LF, "B">>)), Segment("pair", Some(<<>>), Some(<<"C">>)) >>))

\* a list of one str
R_bare == Response("str", FALSE, <<"[", "(", "'", "C", "'", ")", "]">>, <<>>, <<>>, EvalList(<< Segment("bare", None, Some(<<"C">>)) >>))

\* a serialized list cut short
R_cut == Response("str", FALSE, <<"[", "(", "'", "h", "1", "'", ",", " ", "'", "C">>, <<>>, <<>>, EvalRaises("SyntaxError"))

\* a name is not a literal
R_name == Response("str", FALSE, <<"[", "(", "'", "h", "1", "'", ",", " ", "C", ")", "]">>, <<>>, <<>>, EvalRaises("ValueError"))

\* a set display holding a list: unhashable
R_unhashable == Response("str", FALSE, <<"[", "(", "'", "h", "1", "'", ",", " ", "{", "[", "1", "]", "}", ")", "]">>, <<>>, <<>>, EvalRaises("TypeError"))

StrResponses == {R_plain, R_tuple, R_one, R_two, R_bare, R_cut, R_name, R_unhashable}

\* Bytes: every slice of the UTF-8 encoding of a text with a three-byte and
\* a four-byte character
B_text == encode(<<"a", U_20AC, U_1F600>>)
ByteSlices == { SubSeq(B_text, i, j) : i \in 1..Len(B_text), j \in 0..Len(B_text) }

\* the values found in the content attribute of a response object
ContentResponses ==
    { Response("bytes", TRUE, <<>>, b, <<>>, NoEval) : b \in ByteSlices }
    \cup { Response("none", TRUE, <<>>, <<>>, <<>>, NoEval),
           Response("str", TRUE, R_one.text, <<>>, <<>>, R_one.eval),
           Response("list", TRUE, <<>>, <<>>, R_two.eval.value, NoEval) }

CoerceInputs ==
    StrResponses \cup ContentResponses
    \cup { Response("list", FALSE, <<>>, <<>>, segs, NoEval) : segs \in SegmentLists }

-----------------------------------------------------------------------------
(* The log filter as a state machine: one call at a time                    *)

NoLog == Idle

InitLog ==
    /\ reg = RegPlain
    /\ op = Idle
    /\ out = NoOut
    /\ logop = Idle
    /\ logout = NoLog
    /\ ObsStart
    /\ CacheStart

\* _filter_logs(raw_log, filter_level, context_lines, tail_lines, max_bytes)
FilterLogs ==
    /\ logop = Idle
    /\ \E i \in FilterInputs :
        /\ logop' = [name |-> "_filter_logs", args |-> i]
        /\ logout' = _filter_logs(i.raw_log, i.filter_level, i.context_lines,
                                  i.tail_lines, i.max_bytes)
    /\ UNCHANGED <<urlVars, obsVars, cacheVars>>

\* get_task_instance_logs(...) once the log text has been fetched
GetTaskInstanceLogs ==
    /\ logop = Idle
    /\ \E i \in PipeInputs :
        /\ logop' = [name |-> "get_task_instance_logs", args |-> i]
        /\ logout' = get_task_instance_logs(i.raw_log, i.filter_level,
                                            i.context_lines, i.tail_lines, i.max_bytes)
    /\ UNCHANGED <<urlVars, obsVars, cacheVars>>

\* _filter_logs applied to the text a first call returned, with the same
\* filter_level and max_bytes and without context_lines and tail_lines
Refilter ==
    /\ logop.name = "_filter_logs"
    /\ logout.ok
    /\ logop' = [name |-> "refilter", args |-> logop.args, first |-> logout]
    /\ logout' = _filter_logs(logout.text, logop.args.filter_level, NoInt, NoInt,
                              logop.args.max_bytes)
    /\ UNCHANGED <<urlVars, obsVars, cacheVars>>

\* _coerce_log_text(resp) on the response of the Airflow client
CoerceLogText ==
    /\ logop = Idle
    /\ \E r \in CoerceInputs :
        /\ logop' = [name |-> "_coerce_log_text", args |-> [response |-> r]]
        /\ logout' = _coerce_log_text(r)
    /\ UNCHANGED <<urlVars, obsVars, cacheVars>>

\* The caller consumes the result
ReturnLog ==
    /\ logop # Idle
    /\ logop' = Idle
    /\ logout' = NoLog
    /\ UNCHANGED <<urlVars, obsVars, cacheVars>>

NextLog == FilterLogs \/ GetTaskInstanceLogs \/ Refilter \/ CoerceLogText \/ ReturnLog

SpecLog == InitLog /\ [][NextLog]_vars

-----------------------------------------------------------------------------
(* Properties of the log filter                                             *)

IsFilter == logop.name = "_filter_logs"
IsGetLogs == logop.name = "get_task_instance_logs"

\* The lines a tail of n lines leaves: the last n, none for n = 0, all of
\* them when no tail (or a negative one) is asked for
Window(lines, tail_lines) ==
    IF ~tail_lines.some \/ tail_lines.v < 0 \/ tail_lines.v >= Len(lines) THEN lines
    ELSE SubSeq(lines, Len(lines) - tail_lines.v + 1, Len(lines))

\* s is what is left of t after cutting it at some character
IsPrefix(s, t) == Len(s) <= Len(t) /\ SubSeq(t, 1, Len(s)) = s

\* C2: for every raw log, every combination of options and every
\* max_bytes >= 0, _filter_logs returns a text whose UTF-8 length is
\* bytes_returned and at most max_bytes, cut between characters and never
\* raising
C2_ByteCap ==
    (IsFilter /\ logop.args.max_bytes >= 0) =>
        /\ logout.ok
        /\ CanEncode(logout.text)
        /\ logout.bytes_returned = Len(encode(logout.text))
        /\ logout.bytes_returned <= logop.args.max_bytes
        /\ IsPrefix(logout.text, join(logout.lines, <<LF>>))

\* every line of lines that the pattern of level matches is among kept
KeepsMatchesOf(level, lines, kept) ==
    \A i \in DOMAIN lines :
        search(patterns[level], lines[i]) => \E j \in DOMAIN kept : kept[j] = lines[i]

\* C4: the levels are cumulative: a line that level "error" matches is kept
\* by level "warning", and a line that level "warning" matches is kept by
\* level "info"
C4_CumulativeLevels ==
    (IsFilter /\ logout.ok /\ ~logop.args.tail_lines.some
              /\ ~logop.args.context_lines.some) =>
        /\ logop.args.filter_level = Some("warning") =>
             KeepsMatchesOf("error", splitlines(logop.args.raw_log), logout.lines)
        /\ logop.args.filter_level = Some("info") =>
             KeepsMatchesOf("warning", splitlines(logop.args.raw_log), logout.lines)

\* the elements of a finite set of integers in ascending order
RECURSIVE Ascending(_)
Ascending(S) ==
    IF S = {} THEN <<>>
    ELSE <<First(S)>> \o Ascending(S \ {First(S)})

\* indices, counted from 0, of the lines of window that the level matches
MatchIndices0(window, level) ==
    { i \in 0..(Len(window) - 1) : search(patterns[level], window[i + 1]) }

\* the union over the matches i of [max(0, i - c), min(lastIndex, i + c)]
ContextUnion0(lastIndex, matches, c) ==
    { j \in 0..lastIndex : \E i \in matches :
        /\ (IF i - c > 0 THEN i - c ELSE 0) <= j
        /\ j <= (IF i + c < lastIndex THEN i + c ELSE lastIndex) }

\* the lines of window at the given indices (from 0), ascending, each once
LinesAt0(window, indices) ==
    [k \in 1..Cardinality(indices) |-> window[Ascending(indices)[k] + 1]]

\* a level filter with a positive context has matched at least one line
ContextCase ==
    /\ IsFilter
    /\ logout.ok
    /\ logop.args.filter_level.some
    /\ logop.args.filter_level.v \in DOMAIN patterns
    /\ logop.args.context_lines.some
    /\ logop.args.context_lines.v > 0
    /\ logout.match_count > 0

ContextExpected(window, matches, c) ==
    /\ logout.lines = LinesAt0(window, ContextUnion0(Len(window) - 1, matches, c))
    /\ (c = 5 /\ Len(window) >= 6
        /\ (matches = {0} \/ matches = {Len(window) - 1})) => logout.returned_lines = 6

\* C5: when a level filter matched and context_lines = c > 0, the lines kept
\* are those of the union of the windows [max(0, i-c), min(lastIndex, i+c)]
\* around the matches i, ascending and without duplicates; a single match at
\* either end with c = 5 in at least 6 lines keeps 6 lines
C5_ContextExpansion ==
    ContextCase =>
        ContextExpected(Window(splitlines(logop.args.raw_log), logop.args.tail_lines),
                        MatchIndices0(Window(splitlines(logop.args.raw_log),
                                             logop.args.tail_lines),
                                      logop.args.filter_level.v),
                        logop.args.context_lines.v)

\* C5 witness: one match at index 0 of seven lines, c = 5, six lines kept
C5_Witness ==
    /\ ContextCase
    /\ logop.args.context_lines.v = 5
    /\ ~logop.args.tail_lines.some
    /\ logout.original_lines = 7
    /\ MatchIndices0(splitlines(logop.args.raw_log), "error") = {0}
    /\ logout.returned_lines = 6

\* the lines a log has once the auto-tail has run: the last lines are joined
\* again, so that an empty last line among them is no line any more
AfterAutoTail(log_text) ==
    IF Len(log_text) > AUTO_TAIL_CHARS
    THEN splitlines(join(Window(splitlines(log_text), Some(AUTO_TAIL_LINES)), <<LF>>))
    ELSE splitlines(log_text)

\* kept is made of lines of window, in their order
IsSubsequence(kept, window) ==
    \E S \in SUBSET (DOMAIN window) : kept = AtIndices(window, S, 1)

\* the number of lines of window the level filter matches, 0 without a filter
MatchesIn(window, filter_level) ==
    IF filter_level.some /\ filter_level.v \in DOMAIN patterns
    THEN Cardinality(MatchIndices0(window, filter_level.v))
    ELSE 0

\* text is full cut to the longest run of whole characters within max_bytes
CappedTo(text, truncated, full, max_bytes) ==
    IF Len(encode(full)) <= max_bytes
    THEN text = full /\ ~truncated
    ELSE /\ truncated
         /\ IsPrefix(text, full)
         /\ max_bytes >= 0 =>
              /\ Len(encode(text)) <= max_bytes
              /\ Len(encode(SubSeq(full, 1, Len(text) + 1))) > max_bytes

\* the result res comes from window by filtering, then expanding inside
\* window, then capping the joined text
StagesInOrder(res, text, window, filter_level, max_bytes) ==
    /\ res.match_count = MatchesIn(window, filter_level)
    /\ IsSubsequence(res.lines, window)
    /\ res.returned_lines = Len(res.lines)
    /\ CappedTo(text, res.truncated, join(res.lines, <<LF>>), max_bytes)

\* C6: the stages run in the order auto-tail, tail, level filter, context,
\* byte cap: matches are searched only in the last tail_lines lines of the
\* (auto-tailed) log, context never leaves that window, and the cap cuts the
\* text left by filtering and expansion (a tail of 0 returns before the cap,
\* which shows only under a negative max_bytes, left out here)
C6_StageOrder ==
    /\ (IsFilter /\ logout.ok
         /\ (logop.args.max_bytes >= 0 \/ logop.args.tail_lines # Some(0))) =>
          /\ logout.original_lines = Len(splitlines(logop.args.raw_log))
          /\ StagesInOrder(logout, logout.text,
                           Window(splitlines(logop.args.raw_log), logop.args.tail_lines),
                           logop.args.filter_level, logop.args.max_bytes)
    /\ (IsGetLogs /\ logout.ok) =>
          /\ logout.auto_tailed = (Len(logop.args.raw_log) > AUTO_TAIL_CHARS)
          /\ logout.original_lines = Len(AfterAutoTail(logop.args.raw_log))
          /\ StagesInOrder(logout, logout.log,
                           Window(AfterAutoTail(logop.args.raw_log),
                                  logout.filters.tail_lines),
                           logop.args.filter_level, logop.args.max_bytes)

\* C6 witness: a log of four lines is auto-tailed to two, the tail keeps the
\* last one, the only match is in it although an earlier line matches too,
\* its context adds nothing, and the cap cuts the text
C6_Witness ==
    /\ IsGetLogs
    /\ logout.ok
    /\ logout.auto_tailed
    /\ Len(splitlines(logop.args.raw_log)) = 4
    /\ MatchesIn(splitlines(logop.args.raw_log), Some("error")) = 2
    /\ logout.original_lines = 2
    /\ logout.filters.tail_lines = Some(1)
    /\ logout.filters.context_lines = Some(1)
    /\ logop.args.filter_level = Some("error")
    /\ logout.match_count = 1
    /\ logout.returned_lines = 1
    /\ logout.truncated

\* a level filter that names one of the three levels is applied
LevelCase ==
    /\ IsFilter
    /\ logout.ok
    /\ logop.args.filter_level.some
    /\ logop.args.filter_level.v \in DOMAIN patterns

NoContext(context_lines) == ~context_lines.some \/ context_lines.v = 0

MatchesCounted(window, level, context_lines) ==
    /\ logout.match_count = Cardinality(MatchIndices0(window, level))
    /\ NoContext(context_lines) =>
          /\ logout.lines = LinesAt0(window, MatchIndices0(window, level))
          /\ logout.returned_lines = logout.match_count

\* C15: match_count is the number of lines, among those left by the tail,
\* that the level pattern matches, whatever the context adds; without context
\* the lines returned are those matching lines in their order
C15_MatchCount ==
    LevelCase =>
        MatchesCounted(Window(splitlines(logop.args.raw_log), logop.args.tail_lines),
                       logop.args.filter_level.v, logop.args.context_lines)

\* C15 witness: "ERROR a / INFO b / ERROR c" at level error without context
\* gives match_count 2 and the two ERROR lines
C15_Witness ==
    /\ LevelCase
    /\ splitlines(logop.args.raw_log) = ExampleLog
    /\ logop.args.filter_level.v = "error"
    /\ ~logop.args.context_lines.some
    /\ ~logop.args.tail_lines.some
    /\ logout.match_count = 2
    /\ logout.lines = <<L_error, L_errorC>>
    /\ logout.text = join(<<L_error, L_errorC>>, <<LF>>)

\* C16: with tail_lines = 0, _filter_logs returns an empty text, truncated
\* false, zero bytes_returned, returned_lines and match_count, and the line
\* count of its input as original_lines, whatever the other options are
C16_TailZero ==
    (IsFilter /\ logop.args.tail_lines = Some(0)) =>
        /\ logout.ok
        /\ logout.text = <<>>
        /\ ~logout.truncated
        /\ logout.bytes_returned = 0
        /\ logout.returned_lines = 0
        /\ logout.match_count = 0
        /\ logout.original_lines = Len(splitlines(logop.args.raw_log))

\* C16 witness: three lines with a match, a level, a context and a cap of 0
C16_Witness ==
    /\ IsFilter
    /\ logop.args.tail_lines = Some(0)
    /\ logop.args.filter_level = Some("error")
    /\ logop.args.context_lines = Some(1)
    /\ logop.args.max_bytes = 0
    /\ MatchesIn(splitlines(logop.args.raw_log), Some("error")) > 0
    /\ logout.original_lines = 3
    /\ logout.returned_lines = 0

\* C17: auto_tailed is true exactly when the log is longer than
\* AUTO_TAIL_CHARS characters; the log is then cut to its last
\* AUTO_TAIL_LINES lines before any other stage, whatever the options are,
\* so that no more lines than that are counted or returned
C17_AutoTail ==
    (IsGetLogs /\ logout.ok) =>
        /\ logout.auto_tailed = (Len(logop.args.raw_log) > AUTO_TAIL_CHARS)
        /\ logout.auto_tailed =>
              /\ logout.original_lines <= AUTO_TAIL_LINES
              /\ logout.returned_lines <= AUTO_TAIL_LINES
              /\ IsSubsequence(logout.lines,
                               Window(splitlines(logop.args.raw_log), Some(AUTO_TAIL_LINES)))
        /\ ~logout.auto_tailed =>
              logout.original_lines = Len(splitlines(logop.args.raw_log))

\* C17 witness: four lines above the size, a tail of three asked for, two
\* lines counted and returned
C17_Witness ==
    /\ IsGetLogs
    /\ logout.ok
    /\ logout.auto_tailed
    /\ Len(splitlines(logop.args.raw_log)) = 4
    /\ logop.args.tail_lines = RawInt(3)
    /\ ~logop.args.filter_level.some
    /\ logout.original_lines = AUTO_TAIL_LINES
    /\ logout.returned_lines = AUTO_TAIL_LINES

\* the client's value can be turned into an integer: a bool, an int, a
\* float without fraction or a string of digits with an optional sign
Coercible(raw) ==
    \/ raw.kind \in {"bool", "int"}
    \/ raw.kind = "float" /\ raw.whole
    \/ raw.kind = "str" /\ IsIntLiteral(raw.s)

IntegerOf(raw) == IF raw.kind = "str" THEN IntOf(raw.s) ELSE raw.n

\* the effective value: absent when not coercible, else the nearest value
\* within [0, hi]
Effective(raw, hi) ==
    IF ~Coercible(raw) THEN NoInt
    ELSE IF IntegerOf(raw) < 0 THEN Some(0)
    ELSE IF IntegerOf(raw) > hi THEN Some(hi)
    ELSE Some(IntegerOf(raw))

\* the text handed to the filter: the last lines joined when the log is
\* oversized, else the log as it is
ReducedText(log_text) ==
    IF Len(log_text) > AUTO_TAIL_CHARS
    THEN join(Window(splitlines(log_text), Some(AUTO_TAIL_LINES)), <<LF>>)
    ELSE log_text

\* the payload carries what _filter_logs returns for the given options
FilteredWith(log_text, filter_level, context_lines, tail_lines, max_bytes) ==
    /\ logout.log = _filter_logs(log_text, filter_level, context_lines, tail_lines,
                                 max_bytes).text
    /\ logout.lines = _filter_logs(log_text, filter_level, context_lines, tail_lines,
                                   max_bytes).lines
    /\ logout.match_count = _filter_logs(log_text, filter_level, context_lines,
                                         tail_lines, max_bytes).match_count

IsRefilter == logop.name = "refilter"

\* C19 as stated: filtering the text of a filtered result again, with the
\* same filter_level and max_bytes and without tail_lines and context_lines,
\* returns the same text and the same returned_lines
C19_RefilterNoOp ==
    IsRefilter =>
        /\ logout.ok
        /\ logout.text = logop.first.text
        /\ logout.returned_lines = logop.first.returned_lines

\* the first call added context lines to the matching ones
ContextAdded(args, first) ==
    /\ args.filter_level.some
    /\ args.filter_level.v \in DOMAIN patterns
    /\ ~NoContext(args.context_lines)
    /\ first.match_count > 0

EndsWithEmptyLine(lines) == lines # <<>> /\ lines[Len(lines)] = <<>>

\* C19 amended: the second pass is a no-op when the first result was not
\* truncated, carries no context lines and does not end with an empty line
C19_RefilterNoOpWhenWhole ==
    (/\ IsRefilter
     /\ ~logop.first.truncated
     /\ ~ContextAdded(logop.args, logop.first)
     /\ ~EndsWithEmptyLine(logop.first.lines)) =>
        /\ logout.ok
        /\ logout.text = logop.first.text
        /\ logout.returned_lines = logop.first.returned_lines
        /\ logout.lines = logop.first.lines

\* C19 witness: a first pass that kept some of the lines of a tail, filtered
\* again to the same result
C19_Witness ==
    /\ IsRefilter
    /\ logop.args.filter_level = Some("error")
    /\ logop.args.tail_lines = Some(2)
    /\ ~logop.first.truncated
    /\ ~ContextAdded(logop.args, logop.first)
    /\ logop.first.returned_lines = 1
    /\ logop.first.original_lines = 3
    /\ logout.text = logop.first.text
    /\ logout.returned_lines = 1

IsCoerce == logop.name = "_coerce_log_text"

\* the host a divider shows according to the claim: the segment's host,
\* unknown-host when it is empty or absent
HostShown(host) == IF host.some /\ host.v # <<>> THEN host.v ELSE S_unknown_host

\* every segment is a (host, text) pair with a text
IsPairs(segments) ==
    \A i \in DOMAIN segments : segments[i].kind = "pair" /\ segments[i].text.some

\* the lines the claim describes: per segment its divider and the lines of
\* its text, one empty line between consecutive segments
RECURSIVE ExpectedLines(_, _)
ExpectedLines(segments, idx) ==
    IF idx > Len(segments) THEN <<>>
    ELSE (IF idx > 1 THEN << <<>> >> ELSE <<>>)
         \o << Divider(HostShown(segments[idx].host)) >>
         \o splitlines(segments[idx].text.v)
         \o ExpectedLines(segments, idx + 1)

\* a str that _coerce_log_text takes for a serialized list
Recognized(response) ==
    /\ StartsWith(strip(response.text, WhitespaceSet), S_list_prefix)
    /\ response.eval.exc = ""
    /\ response.eval.list

\* C20: a list of (host, text) pairs becomes, segment by segment, a divider
\* line followed by the segment's text, with one blank line between
\* segments; a str that is not taken for a serialized list comes back
\* unchanged
C20_HostSegmented ==
    IsCoerce =>
        /\ (logop.args.response.kind = "list" /\ IsPairs(logop.args.response.segments)) =>
              /\ logout.ok
              /\ splitlines(logout.text) = ExpectedLines(logop.args.response.segments, 1)
        /\ (/\ logop.args.response.kind = "str"
            /\ ~logop.args.response.attr
            /\ ~Recognized(logop.args.response)) =>
              /\ logout.ok
              /\ logout.text = logop.args.response.text

\* C21: on a str _coerce_log_text never raises, and a str that has the list
\* prefix and that ast.literal_eval cannot evaluate, whatever the failure,
\* comes back unchanged
C21_FailsClosed ==
    (IsCoerce /\ logop.args.response.kind = "str" /\ ~logop.args.response.attr) =>
        /\ logout.ok
        /\ (/\ StartsWith(strip(logop.args.response.text, WhitespaceSet), S_list_prefix)
            /\ logop.args.response.eval.exc # "") =>
               logout.text = logop.args.response.text

\* C24: returned_lines is the number of lines of the returned text, also
\* when the byte cap cut the text
C24_ReturnedLinesOfText ==
    (IsFilter /\ logout.ok) => logout.returned_lines = Len(splitlines(logout.text))

\* s[i..] is found, in its order, within t[j..]
RECURSIVE IsSubseqFrom(_, _, _, _)
IsSubseqFrom(s, t, i, j) ==
    IF i > Len(s) THEN TRUE
    ELSE IF j > Len(t) THEN FALSE
    ELSE IF s[i] = t[j] THEN IsSubseqFrom(s, t, i + 1, j + 1)
    ELSE IsSubseqFrom(s, t, i, j + 1)

\* s is t with some of its elements left out: nothing twice, nothing out of
\* order, nothing new
IsSubseq(s, t) == IsSubseqFrom(s, t, 1, 1)

\* the counts are ordered, the lines kept are lines of the input in their
\* order, and the text returned is those lines joined, or the start of it
CountsAndLinesInOrder ==
    /\ 0 <= logout.match_count
    /\ logout.match_count <= logout.returned_lines
    /\ logout.returned_lines <= logout.original_lines
    /\ logout.original_lines = Len(splitlines(logop.args.raw_log))
    /\ logout.returned_lines = Len(logout.lines)
    /\ IsSubseq(logout.lines, splitlines(logop.args.raw_log))
    /\ IsPrefix(logout.text, join(logout.lines, <<LF>>))
    /\ ~logout.truncated => logout.text = join(logout.lines, <<LF>>)

Unrecognized(filter_level) ==
    filter_level.some /\ filter_level.v \notin {"error", "warning", "info"}

\* the arguments of the call with filter_level left out
WithoutLevel(args) == [args EXCEPT !.filter_level = NoLevel]

\* the payload with the filter_level of meta.filters left out
WithoutEcho(p) == [p EXCEPT !.filters.filter_level = NoLevel]

\* C30: a filter_level other than 'error', 'warning' and 'info' is ignored
\* by _filter_logs: nothing is raised, every line of the tail is kept,
\* no context is added, match_count is 0 and the result is that of the call
\* without a level; meta.filters of get_task_instance_logs echoes the value
C30_UnrecognizedLevelIgnored ==
    /\ (IsFilter /\ Unrecognized(logop.args.filter_level)) =>
          /\ logout.ok
          /\ logout.match_count = 0
          /\ logout.lines = Window(splitlines(logop.args.raw_log), logop.args.tail_lines)
          /\ logout = _filter_logs(logop.args.raw_log, NoLevel, logop.args.context_lines,
                                   logop.args.tail_lines, logop.args.max_bytes)
    /\ (IsGetLogs /\ Unrecognized(logop.args.filter_level)) =>
          /\ logout.ok
          /\ logout.match_count = 0
          /\ logout.filters.filter_level = logop.args.filter_level
          /\ WithoutEcho(logout) =
                get_task_instance_logs(logop.args.raw_log, NoLevel,
                                       logop.args.context_lines, logop.args.tail_lines,
                                       logop.args.max_bytes)

\* C30 witness: "ERROR a / INFO b / ERROR c" at level 'ERROR' with a context
\* of one line comes back whole with match_count 0
C30_Witness ==
    /\ IsFilter
    /\ logop.args.filter_level = Some("ERROR")
    /\ logop.args.context_lines = Some(1)
    /\ ~logop.args.tail_lines.some
    /\ logout.ok
    /\ logout.lines = ExampleLog
    /\ logout.match_count = 0

-----------------------------------------------------------------------------
(* observability.py: OperationLogger; errors.py: handle_errors              *)

\* An OperationLogger is known by its request_id: uuid4().hex, modelled as
\* the number of the object; 0 stands for None

\* at most MaxOps loggers are created, with-blocks nest at most MaxDepth deep
MaxOps == 3
MaxDepth == 2

_UNEXPECTED_ERROR_MESSAGE == "Unexpected error; see logs with request_id"

\* the exceptions a tool body raises: AirflowToolError with its code, a
\* ToolError of its own, subclasses of Exception, and exceptions that derive
\* from BaseException only
Exc(type, code, text) == [type |-> type, code |-> code, text |-> text]
ToolExceptions ==
    { Exc("AirflowToolError", c, "Missing dag_id") : c \in {"INVALID_INPUT", "NOT_FOUND"} }
    \cup { Exc("ToolError", "", "{\"code\": \"NOT_FOUND\"}") }
    \cup { Exc(t, "", m) : t \in {"RuntimeError", "KeyError"},
                           m \in {"secret failure", "other secret"} }
    \cup { Exc("KeyboardInterrupt", "", ""), Exc("SystemExit", "", "secret failure") }

\* issubclass(type, Exception)
IsException(type) == type \notin {"KeyboardInterrupt", "SystemExit"}

\* Mutation: leaving a block clears the current logger
ResetToken_None(token) == 0

\* _current_logger.reset(token): the value before the set that made token
ResetToken(token) == token

\* current_op or get_last_operation_logger(), then its request_id or None
RequestIdOf(current_op, last_op) == IF current_op # 0 THEN current_op ELSE last_op

\* what the wrapper raises, with the exception it handled
Raised(type, code, message, request_id, of) == [raised |-> type, code |-> code, message |-> message, request_id |-> request_id, of |-> of, opened |-> {}]

\* Mutation: the message of the payload is the text of the exception
UnexpectedPayload_Leak(e, current_op, last_op) ==
    Raised("ToolError", "INTERNAL_ERROR", e.text, RequestIdOf(current_op, last_op), e)

\* the branch except Exception of the wrapper
UnexpectedPayload(e, current_op, last_op) ==
    Raised("ToolError", "INTERNAL_ERROR", _UNEXPECTED_ERROR_MESSAGE,
           RequestIdOf(current_op, last_op), e)

\* the branch except AirflowToolError of the wrapper
ExpectedPayload(e, current_op, last_op) ==
    Raised("ToolError", e.code, e.text, RequestIdOf(current_op, last_op), e)

\* the wrapper of handle_errors on an exception of the tool: a ToolError
\* passes, an exception outside Exception is not caught
handle_errors(e, current_op, last_op) ==
    IF e.type = "AirflowToolError" THEN ExpectedPayload(e, current_op, last_op)
    ELSE IF e.type = "ToolError" THEN Raised("ToolError", e.code, e.text, 0, e)
    ELSE IF IsException(e.type) THEN UnexpectedPayload(e, current_op, last_op)
    ELSE Raised(e.type, "", e.text, 0, e)

\* the wrapper calls current_op.error(...), which sets _last_logger
CallsError(e, current_op) ==
    e.type # "ToolError" /\ IsException(e.type) /\ current_op # 0

\* the with-blocks the running code may leave: those it opened itself
Depth == Len(blocks) - (IF call.active THEN call.base ELSE 0)

\* A tool wrapped by handle_errors is called
CallTool ==
    /\ ~call.active
    /\ in_flight = NoExc
    /\ call' = [active |-> TRUE, base |-> Len(blocks), opened |-> {}]
    /\ payload' = NoPayload
    /\ UNCHANGED <<_current_logger, _last_logger, blocks, request_ids, in_flight>>
    /\ UNCHANGED <<urlVars, logVars, cacheVars>>

\* with operation_logger(...) as op: a new logger, then __enter__
Enter ==
    /\ in_flight = NoExc
    /\ Len(blocks) < MaxDepth
    /\ request_ids < MaxOps
    /\ request_ids' = request_ids + 1
    /\ blocks' = Append(blocks, [logger |-> request_ids + 1, token |-> _current_logger])
    /\ _current_logger' = request_ids + 1
    /\ _last_logger' = request_ids + 1
    /\ call' = IF call.active THEN [call EXCEPT !.opened = @ \cup {request_ids + 1}] ELSE call
    /\ UNCHANGED <<in_flight, payload>>
    /\ UNCHANGED <<urlVars, logVars, cacheVars>>

\* op.success(payload) or op.error(message) on the logger of an open block
Complete ==
    /\ in_flight = NoExc
    /\ \E i \in DOMAIN blocks : _last_logger' = blocks[i].logger
    /\ UNCHANGED <<_current_logger, blocks, request_ids, call, in_flight, payload>>
    /\ UNCHANGED <<urlVars, logVars, cacheVars>>

\* the body raises
Raise ==
    /\ in_flight = NoExc
    /\ call.active \/ blocks # <<>>
    /\ \E e \in ToolExceptions : in_flight' = e
    /\ UNCHANGED <<_current_logger, _last_logger, blocks, request_ids, call, payload>>
    /\ UNCHANGED <<urlVars, logVars, cacheVars>>

\* __exit__ of the innermost block, at its end or with the exception that
\* is propagating; it returns False
Exit ==
    /\ Depth > 0
    /\ _current_logger' = ResetToken(blocks[Len(blocks)].token)
    /\ _last_logger' = blocks[Len(blocks)].logger
    /\ blocks' = SubSeq(blocks, 1, Len(blocks) - 1)
    /\ UNCHANGED <<request_ids, call, in_flight, payload>>
    /\ UNCHANGED <<urlVars, logVars, cacheVars>>

\* the tool returns: the wrapper returns its value
ReturnTool ==
    /\ call.active
    /\ in_flight = NoExc
    /\ Depth = 0
    /\ call' = NoCall
    /\ UNCHANGED <<_current_logger, _last_logger, blocks, request_ids, in_flight, payload>>
    /\ UNCHANGED <<urlVars, logVars, cacheVars>>

\* the exception reaches the wrapper of handle_errors
HandleErrors ==
    /\ call.active
    /\ in_flight # NoExc
    /\ Depth = 0
    /\ payload' = [handle_errors(in_flight, _current_logger, _last_logger) EXCEPT !.opened = call.opened]
    /\ _last_logger' = IF CallsError(in_flight, _current_logger) THEN _current_logger ELSE _last_logger
    /\ in_flight' = Exc(handle_errors(in_flight, _current_logger, _last_logger).raised, "", "")
    /\ call' = NoCall
    /\ UNCHANGED <<_current_logger, blocks, request_ids>>
    /\ UNCHANGED <<urlVars, logVars, cacheVars>>

\* the exception leaves the code under study (the MCP framework, a test)
Caught ==
    /\ ~call.active
    /\ in_flight # NoExc
    /\ blocks = <<>>
    /\ in_flight' = NoExc
    /\ UNCHANGED <<_current_logger, _last_logger, blocks, request_ids, call, payload>>
    /\ UNCHANGED <<urlVars, logVars, cacheVars>>

InitOps ==
    /\ reg = RegPlain
    /\ op = Idle
    /\ out = NoOut
    /\ logop = Idle
    /\ logout = NoLog
    /\ ObsStart
    /\ CacheStart

NextOps == CallTool \/ Enter \/ Complete \/ Raise \/ Exit \/ ReturnTool \/ HandleErrors \/ Caught

SpecOps == InitOps /\ [][NextOps]_vars

-----------------------------------------------------------------------------
(* Properties of the operation logger and of handle_errors                  *)

\* the payload was built by the wrapper of handle_errors
FromWrapper ==
    /\ payload.raised = "ToolError"
    /\ payload.of # NoExc
    /\ payload.of.type # "ToolError"

\* C25: the request_id of an error payload built by handle_errors is not
\* null and is that of a logger the failing call opened itself, also when
\* the failure came after the with-block or before any logger was opened
C25_OwnRequestId ==
    FromWrapper =>
        /\ payload.request_id # 0
        /\ payload.request_id \in payload.opened

\* C26 as stated: every exception other than AirflowToolError and ToolError
\* gives a ToolError with code INTERNAL_ERROR and the fixed message
C26_EveryExceptionMasked ==
    (payload.of # NoExc /\ payload.of.type \notin {"AirflowToolError", "ToolError"}) =>
        /\ payload.raised = "ToolError"
        /\ payload.code = "INTERNAL_ERROR"
        /\ payload.message = _UNEXPECTED_ERROR_MESSAGE

\* C26 amended: every exception that derives from Exception, other than
\* AirflowToolError and ToolError, gives a ToolError with code INTERNAL_ERROR
\* and the fixed message, whatever its type and text; an exception that
\* derives from BaseException only leaves the wrapper as it is
C26_ExceptionsMasked ==
    (payload.of # NoExc /\ payload.of.type \notin {"AirflowToolError", "ToolError"}) =>
        IF IsException(payload.of.type)
        THEN /\ payload.raised = "ToolError"
             /\ payload.code = "INTERNAL_ERROR"
             /\ payload.message = _UNEXPECTED_ERROR_MESSAGE
        ELSE /\ payload.raised = payload.of.type
             /\ payload.message = payload.of.text

\* C26 witness: a RuntimeError with a secret text was masked
C26_Witness ==
    /\ payload.of = Exc("RuntimeError", "", "secret failure")
    /\ payload.raised = "ToolError"
    /\ payload.code = "INTERNAL_ERROR"
    /\ payload.message = _UNEXPECTED_ERROR_MESSAGE
    /\ payload.request_id # 0

\* C27: the current logger is that of the innermost open with-block, None
\* when no block is open, and each block's token holds the logger of the
\* block around it: leaving a block, at its end or by an exception, gives
\* back what was current before it was entered
C27_CurrentIsInnermost ==
    /\ _current_logger = IF blocks = <<>> THEN 0 ELSE blocks[Len(blocks)].logger
    /\ \A i \in DOMAIN blocks :
          blocks[i].token = IF i = 1 THEN 0 ELSE blocks[i-1].logger

\* C27 witness: an inner block was left by an exception and the logger of
\* the outer block is current again
C27_Witness ==
    /\ Len(blocks) = 1
    /\ blocks[1].logger = 1
    /\ request_ids = 2
    /\ _last_logger = 2
    /\ in_flight.type = "RuntimeError"
    /\ _current_logger = 1

-----------------------------------------------------------------------------
(* registry.py: get_registry and reset_registry_cache, called from threads  *)

\* at most MaxLoads loads and MaxResets resets are followed
MaxLoads == 3
MaxResets == 1

At(t, pc) == threads[t].pc = pc
Goto(t, pc) == [threads EXCEPT ![t].pc = pc]

\* a thread calls get_registry()
GetRegistry(t) ==
    /\ At(t, "outside")
    /\ threads' = Goto(t, "check")
    /\ UNCHANGED <<_registry, loads, resets, urlVars, logVars, obsVars>>

\* if _registry is not None: return _registry
CheckCache(t) ==
    /\ At(t, "check")
    /\ threads' = IF _registry # 0
                  THEN [threads EXCEPT ![t].pc = "done", ![t].got = _registry]
                  ELSE Goto(t, "load")
    /\ UNCHANGED <<_registry, loads, resets, urlVars, logVars, obsVars>>

\* AirflowServerConfig() and load_registry_from_yaml(...) return a registry
LoadRegistry(t) ==
    /\ At(t, "load")
    /\ loads < MaxLoads
    /\ loads' = loads + 1
    /\ threads' = [threads EXCEPT ![t].pc = "store", ![t].loaded = loads + 1]
    /\ UNCHANGED <<_registry, resets, urlVars, logVars, obsVars>>

\* no instances file is set, or load_registry_from_yaml raises
LoadFails(t) ==
    /\ At(t, "load")
    /\ threads' = Goto(t, "failed")
    /\ UNCHANGED <<_registry, loads, resets, urlVars, logVars, obsVars>>

\* _registry = <the loaded registry>
StoreRegistry(t) ==
    /\ At(t, "store")
    /\ _registry' = threads[t].loaded
    /\ threads' = Goto(t, "return")
    /\ UNCHANGED <<loads, resets, urlVars, logVars, obsVars>>

\* return _registry
ReturnRegistry(t) ==
    /\ At(t, "return")
    /\ threads' = [threads EXCEPT ![t].pc = "done", ![t].got = _registry]
    /\ UNCHANGED <<_registry, loads, resets, urlVars, logVars, obsVars>>

\* the caller goes on with what it received or with the exception
Leave(t) ==
    /\ At(t, "done") \/ At(t, "failed")
    /\ threads' = [threads EXCEPT ![t] = Outside]
    /\ UNCHANGED <<_registry, loads, resets, urlVars, logVars, obsVars>>

\* reset_registry_cache()
ResetRegistryCache ==
    /\ resets < MaxResets
    /\ _registry' = 0
    /\ resets' = resets + 1
    /\ UNCHANGED <<loads, threads, urlVars, logVars, obsVars>>

InitCache ==
    /\ reg = RegPlain
    /\ op = Idle
    /\ out = NoOut
    /\ logop = Idle
    /\ logout = NoLog
    /\ ObsStart
    /\ CacheStart

NextCache ==
    \/ \E t \in Threads : GetRegistry(t)
    \/ \E t \in Threads : CheckCache(t)
    \/ \E t \in Threads : LoadRegistry(t)
    \/ \E t \in Threads : LoadFails(t)
    \/ \E t \in Threads : StoreRegistry(t)
    \/ \E t \in Threads : ReturnRegistry(t)
    \/ \E t \in Threads : Leave(t)
    \/ ResetRegistryCache

SpecCache == InitCache /\ [][NextCache]_vars

\* C28: the registry is loaded once unless reset_registry_cache was called,
\* all callers receive that one registry, and a failed load leaves the cache
\* empty, whatever the interleaving of the calls
C28_LoadedOnce ==
    /\ loads <= resets + 1
    /\ resets = 0 =>
          \A t \in Threads : At(t, "done") => (threads[t].got = 1 /\ _registry = 1)
    /\ (loads = 0 /\ \E t \in Threads : At(t, "failed")) => _registry = 0

=============================================================================
